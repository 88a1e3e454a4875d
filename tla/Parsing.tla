------------------------------ MODULE Parsing ------------------------------
(***************************************************************************)
(* parsing.py: strict assessment of a model's answer and the recovery      *)
(* cascade of production.  An answer is a sequence of tokens; "m" stands   *)
(* for the text of a well-formed list of members, "json" for the label of  *)
(* a fence, "x" for prose, "_" for white space.  A decoded value is its    *)
(* text; diagnostics are left out.                                         *)
(***************************************************************************)
EXTENDS Integers, Sequences, FiniteSets, FiniteSetsExt, Functions

NoAnswer == <<"None">>          \* raw is None

Strip(t) ==
  LET solid == {i \in DOMAIN t : t[i] # "_"}
  IN IF solid = {} THEN <<>> ELSE SubSeq(t, Min(solid), Max(solid))

Blank(t) == t = NoAnswer \/ Strip(t) = <<>>

-----------------------------------------------------------------------------
(* json.loads, as the grammar it accepts.                                   *)

\* A character is escaped when an odd number of backslashes precedes it.
Escaped(t, k, first) ==
  \E n \in 1 .. k - first :
    /\ n % 2 = 1
    /\ \A l \in k - n .. k - 1 : t[l] = "\\"
    /\ k - n > first => t[k - n - 1] # "\\"

IsString(t) ==
  LET n == Len(t)
      open(k) == ~Escaped(t, k, 2)
  IN /\ n >= 2 /\ t[1] = "\"" /\ t[n] = "\"" /\ open(n)
     /\ \A k \in 2 .. n - 1 :
          /\ t[k] = "\"" => ~open(k)
          /\ t[k] = "\\" /\ open(k) => t[k + 1] \in {"\"", "\\"}

\* What a text is by the grammar, numerals being the number tokens allowed.
Grammar(numerals) ==
  LET is[p \in {"value", "items", "members"} \X Seq(STRING)] ==
        LET what == p[1]
            s == Strip(p[2])
            n == Len(s)
            inner == SubSeq(s, 2, n - 1)
            empty == Strip(inner) = <<>>
            value(q) == is[<<"value", q>>]
            pair(q) == \E k \in DOMAIN q :
                         /\ q[k] = ":" /\ IsString(Strip(SubSeq(q, 1, k - 1)))
                         /\ value(SubSeq(q, k + 1, Len(q)))
            split(rest, left(_)) ==
              \E k \in 2 .. n - 1 : s[k] = "," /\ left(SubSeq(s, 1, k - 1))
                                              /\ is[<<rest, SubSeq(s, k + 1, n)>>]
        IN \/ /\ what = "value"
              /\ \/ n = 1 /\ s[1] \in numerals
                 \/ IsString(s)
                 \/ n >= 2 /\ s[1] = "[" /\ s[n] = "]" /\ (empty \/ is[<<"items", inner>>])
                 \/ n >= 2 /\ s[1] = "{" /\ s[n] = "}" /\ (empty \/ is[<<"members", inner>>])
           \/ what = "items" /\ (value(s) \/ split("items", value))
           \/ what = "members" /\ (s = <<"m">> \/ pair(s) \/ split("members", pair))
  IN [t \in Seq(STRING) |-> is[<<"value", t>>]]

Type(t) ==
  CASE Head(Strip(t)) = "{" -> "dict"
    [] Head(Strip(t)) = "[" -> "list"
    [] OTHER -> "scalar"

Decode(t, numerals) ==
  IF Strip(t) # <<>> /\ Grammar(numerals)[t] THEN Type(t) ELSE "invalid"

\* _STRICT_DECODER rejects the numeric extensions _decode accepts.
StrictDecode(t) == Decode(t, {"1"})
ProductionDecode(t) == Decode(t, {"1", "NaN"})

-----------------------------------------------------------------------------
\* The text inside the first fence, without label and surrounding space;
\* NoAnswer when there is none.
FirstFence(t) ==
  LET marks == {i \in DOMAIN t : t[i] = "fence"}
      from == Min(marks)
      to == Min(marks \ {from})
      body == IF t[from + 1] = "json" THEN from + 2 ELSE from + 1
  IN IF Cardinality(marks) < 2 THEN NoAnswer
     ELSE Strip(SubSeq(t, body, to - 1))

\* Faulty variant: an escaped quote ends a string.
ScannedWithoutEscapes(s, char, opening, closing) ==
  CASE char = "\"" -> [s EXCEPT !.in_string = ~@]
    [] char # "\"" /\ s.in_string -> s
    [] char = opening -> [s EXCEPT !.depth = @ + 1]
    [] char = closing -> [s EXCEPT !.depth = @ - 1]
    [] OTHER -> s

\* One character of the scan: escapes first, inside strings or not.
Scanned(s, char, opening, closing) ==
  IF s.escape_next THEN [s EXCEPT !.escape_next = FALSE]
  ELSE IF char = "\\" THEN [s EXCEPT !.escape_next = TRUE]
  ELSE IF char = "\"" THEN [s EXCEPT !.in_string = ~@]
  ELSE IF s.in_string THEN s
  ELSE IF char = opening THEN [s EXCEPT !.depth = @ + 1]
  ELSE IF char = closing THEN [s EXCEPT !.depth = @ - 1] ELSE s

\* The first balanced block from the first opening delimiter on; no restart
\* at a later one.
FirstBalanced(t, opening, closing) ==
  LET starts == {i \in DOMAIN t : t[i] = opening}
      start == Min(starts)
      scan[i \in 0 .. Len(t)] ==
        IF i < start THEN [depth |-> 0, in_string |-> FALSE, escape_next |-> FALSE]
        ELSE Scanned(scan[i - 1], t[i], opening, closing)
      ends == {i \in DOMAIN t : i > start /\ t[i] = closing /\ scan[i].depth = 0}
  IN IF starts = {} THEN NoAnswer
     ELSE IF ends = {} THEN NoAnswer
     ELSE SubSeq(t, start, Min(ends))

-----------------------------------------------------------------------------
\* check_strict_json, of a task that requires an object or of any other.
StrictValid(t) == ~Blank(t) /\ StrictDecode(t) # "invalid"

check_strict_json(t, object_required) ==
  [valid |-> StrictValid(t),
   format_valid |-> /\ StrictValid(t)
                    /\ object_required => StrictDecode(t) = "dict"]

Structured(t) == t # NoAnswer /\ ProductionDecode(t) \in {"dict", "list"}

\* Faulty variant: the embedded blocks come before the whole answer.
BlocksFirst(content) ==
  <<<<"object", FirstBalanced(content, "{", "}")>>,
    <<"array", FirstBalanced(content, "[", "]")>>,
    <<"direct", content>>, <<"fence", FirstFence(content)>>>>

\* What production tries, in its order, each branch once.
Candidates(content) ==
  <<<<"direct", content>>, <<"fence", FirstFence(content)>>,
    <<"object", FirstBalanced(content, "{", "}")>>,
    <<"array", FirstBalanced(content, "[", "]")>>>>

\* The first structured candidate.  A failed parse has the empty object for a
\* value, or the whole answer under the key raw: a dict either way, of which
\* nothing is the model's.
Recovered(blank, tried, good) ==
  IF blank \/ good = {}
  THEN [path |-> IF blank THEN "empty" ELSE "raw_fallback",
        success |-> FALSE, value |-> <<>>, type |-> "dict"]
  ELSE LET best == tried[Min(good)]
       IN [path |-> best[1], success |-> TRUE,
           value |-> best[2], type |-> Type(best[2])]

parse_production_json(t) ==
  LET tried == Candidates(Strip(t))
  IN Recovered(Blank(t), tried, {k \in DOMAIN tried : Structured(tried[k][2])})

\* parse_extraction and parse_qa: only an object is of use; parse_qa consumes
\* an empty one otherwise, and extraction's scorer does the same.
Consumed(parsed) ==
  LET usable == parsed.success /\ parsed.type = "dict"
  IN [path |-> parsed.path, usable |-> usable,
      value |-> IF usable THEN parsed.value ELSE <<>>]
parse_object(t) == Consumed(parse_production_json(t))

\* Labels as tokens, upper case or not; CONVERSATION wins.
Upper(t) == [i \in DOMAIN t |-> CASE t[i] = "conversation" -> "CONVERSATION"
                                  [] t[i] = "voicemail" -> "VOICEMAIL"
                                  [] OTHER -> t[i]]

parse_voicemail(t) ==
  LET said == Range(Upper(t))
      label == CASE "CONVERSATION" \in said -> "CONVERSATION"
                 [] "CONVERSATION" \notin said /\ "VOICEMAIL" \in said -> "VOICEMAIL"
                 [] OTHER -> "none"
  IN [path |-> IF label = "none" THEN "none" ELSE "label",
      usable |-> label # "none", value |-> label,
      strict |-> Strip(t) \in {<<"CONVERSATION">>, <<"VOICEMAIL">>}]

parse_summary(t) ==
  [path |-> IF Blank(t) THEN "empty" ELSE "text",
   usable |-> ~Blank(t), value |-> t, strict |-> ~Blank(t)]
=============================================================================
