------------------------ MODULE Publication_proofs ------------------------
(***************************************************************************)
(* Proofs about Publication: what is published is whole, is never          *)
(* replaced, has its records beside it, and stays.                         *)
(***************************************************************************)
EXTENDS Publication, TLAPS

-----------------------------------------------------------------------------
(* The order of the targets.                                                *)

\* What must be visible with a name: the directories it lies in and, with a
\* summary, the records it summarizes.
Needs(n) ==
  Above(n) \cup
  (CASE n = <<"summary-automatic.json">> -> {<<"automatic.jsonl">>}
     [] n \in {"summary"} \X Reviews ->
          {<<"reviews", n[2]>>, <<"summary-automatic.json">>}
     [] OTHER -> {})

Revisions == Reviews \cup {NoReview}

\* The targets of a call, one by one.
LEMMA TargetsAre ==
  ASSUME NEW r \in Revisions
  PROVE  /\ Targets(r)[1] = <<"evaluations">>
         /\ Targets(r)[2] = <<"batch">>
         /\ Targets(r)[3] = <<"automatic.jsonl">>
         /\ Targets(r)[4] = <<"summary-automatic.json">>
         /\ r = NoReview => Len(Targets(r)) = 4 /\ DOMAIN Targets(r) = 1 .. 4
         /\ r # NoReview =>
              /\ Len(Targets(r)) = 7 /\ DOMAIN Targets(r) = 1 .. 7
              /\ Targets(r)[5] = <<"reviews">>
              /\ Targets(r)[6] = <<"reviews", r>>
              /\ Targets(r)[7] = <<"summary", r>>
PROOF
  <1>1. CASE r = NoReview
    BY <1>1 DEF Targets
  <1>2. CASE r # NoReview
    BY <1>2 DEF Targets
  <1>3. QED
    BY <1>1, <1>2

\* A pair is no single name.
LEMMA PairsAreNotSingles ==
  ASSUME NEW a, NEW b, NEW c
  PROVE  <<a>> # <<b, c>>
PROOF
  <1>1. Len(<<a>>) = 1 /\ Len(<<b, c>>) = 2
    OBVIOUS
  <1>2. QED
    BY <1>1

\* What each target needs.
LEMMA NeedsAre ==
  /\ Needs(<<"evaluations">>) = {<<"evaluations">>}
  /\ Needs(<<"batch">>) = {<<"evaluations">>, <<"batch">>}
  /\ Needs(<<"automatic.jsonl">>) = {<<"evaluations">>, <<"batch">>}
  /\ Needs(<<"summary-automatic.json">>) =
       {<<"evaluations">>, <<"batch">>, <<"automatic.jsonl">>}
  /\ Needs(<<"reviews">>) = {<<"evaluations">>, <<"batch">>}
  /\ \A r \in Reviews :
       /\ Needs(<<"reviews", r>>) = {<<"evaluations">>, <<"batch">>, <<"reviews">>}
       /\ Needs(<<"summary", r>>) =
            {<<"evaluations">>, <<"batch">>, <<"reviews", r>>, <<"summary-automatic.json">>}
PROOF
  <1>1. \A a, r : <<a>> \notin {"reviews", "summary"} \X Reviews
    BY PairsAreNotSingles
  <1>2. \A r \in Reviews : Parent(<<"reviews", r>>) = <<"reviews">>
    BY PairsAreNotSingles DEF Parent
  <1>3. \A r \in Reviews : Parent(<<"summary", r>>) = <<"batch">>
    BY PairsAreNotSingles DEF Parent
  <1>4. /\ Parent(<<"evaluations">>) = Run
        /\ Parent(<<"batch">>) = <<"evaluations">>
        /\ Parent(<<"automatic.jsonl">>) = <<"batch">>
        /\ Parent(<<"summary-automatic.json">>) = <<"batch">>
        /\ Parent(<<"reviews">>) = <<"batch">>
    BY PairsAreNotSingles DEF Parent
  <1>5. /\ Above(<<"evaluations">>) = {<<"evaluations">>}
        /\ Above(<<"batch">>) = {<<"evaluations">>, <<"batch">>}
        /\ Above(<<"automatic.jsonl">>) = {<<"evaluations">>, <<"batch">>}
        /\ Above(<<"summary-automatic.json">>) = {<<"evaluations">>, <<"batch">>}
        /\ Above(<<"reviews">>) = {<<"evaluations">>, <<"batch">>}
    BY <1>4 DEF Above, Run
  <1>6. \A r \in Reviews :
          /\ Above(<<"reviews", r>>) = {<<"evaluations">>, <<"batch">>, <<"reviews">>}
          /\ Above(<<"summary", r>>) = {<<"evaluations">>, <<"batch">>}
    BY <1>2, <1>3, PairsAreNotSingles DEF Above
  <1>7. /\ Needs(<<"evaluations">>) = {<<"evaluations">>}
        /\ Needs(<<"batch">>) = {<<"evaluations">>, <<"batch">>}
        /\ Needs(<<"automatic.jsonl">>) = {<<"evaluations">>, <<"batch">>}
        /\ Needs(<<"reviews">>) = {<<"evaluations">>, <<"batch">>}
    BY <1>1, <1>5 DEF Needs
  <1>8. Needs(<<"summary-automatic.json">>) =
          {<<"evaluations">>, <<"batch">>, <<"automatic.jsonl">>}
    BY <1>1, <1>5 DEF Needs
  <1>9. ASSUME NEW r \in Reviews
        PROVE  Needs(<<"reviews", r>>) = {<<"evaluations">>, <<"batch">>, <<"reviews">>}
    <2>1. <<"reviews", r>> \notin {"summary"} \X Reviews
      OBVIOUS
    <2>2. QED
      BY <1>6, <2>1, PairsAreNotSingles DEF Needs
  <1>10. ASSUME NEW r \in Reviews
         PROVE  Needs(<<"summary", r>>) =
            {<<"evaluations">>, <<"batch">>, <<"reviews", r>>, <<"summary-automatic.json">>}
    <2>1. <<"summary", r>> \in {"summary"} \X Reviews /\ <<"summary", r>>[2] = r
      OBVIOUS
    <2>2. QED
      BY <1>6, <2>1, PairsAreNotSingles DEF Needs
  <1>11. QED
    BY <1>7, <1>8, <1>9, <1>10

\* Every target is a name of the tree.
LEMMA TargetsAreNames ==
  ASSUME NEW r \in Revisions
  PROVE  /\ Len(Targets(r)) \in Nat /\ Len(Targets(r)) >= 4
         /\ DOMAIN Targets(r) = 1 .. Len(Targets(r))
         /\ \A i \in DOMAIN Targets(r) : Targets(r)[i] \in Names
PROOF
  <1>1. \A i \in 1 .. 4 : i = 1 \/ i = 2 \/ i = 3 \/ i = 4
    OBVIOUS
  <1>2. \A i \in 1 .. 7 : i = 1 \/ i = 2 \/ i = 3 \/ i = 4 \/ i = 5 \/ i = 6 \/ i = 7
    OBVIOUS
  <1>3. {<<"evaluations">>, <<"batch">>, <<"automatic.jsonl">>,
         <<"summary-automatic.json">>, <<"reviews">>} \subseteq Names
    BY DEF Names
  <1>4. CASE r = NoReview
    <2>1. \A i \in DOMAIN Targets(r) : Targets(r)[i] \in Names
      BY <1>1, <1>3, <1>4, TargetsAre
    <2>2. QED
      BY <2>1, <1>4, TargetsAre
  <1>5. CASE r # NoReview
    <2>1. r \in Reviews
      BY <1>5 DEF Revisions
    <2>2. <<"reviews", r>> \in Names /\ <<"summary", r>> \in Names
      BY <2>1 DEF Names
    <2>3. \A i \in DOMAIN Targets(r) : Targets(r)[i] \in Names
      BY <1>2, <1>3, <1>5, <2>2, TargetsAre
    <2>4. QED
      BY <2>3, <1>5, TargetsAre
  <1>6. QED
    BY <1>4, <1>5

\* What a target needs comes before it.
LEMMA NeedsComeFirst ==
  ASSUME NEW r \in Revisions, NEW i \in DOMAIN Targets(r)
  PROVE  \A n \in Needs(Targets(r)[i]) :
           n = Targets(r)[i] \/ \E j \in 1 .. i - 1 : Targets(r)[j] = n
PROOF
  <1>1. CASE i = 1
    BY <1>1, TargetsAre, NeedsAre
  <1>2. CASE i = 2
    <2>1. 1 \in 1 .. i - 1
      BY <1>2
    <2>2. QED
      BY <1>2, <2>1, TargetsAre, NeedsAre
  <1>3. CASE i = 3 \/ i = 4
    <2>1. 1 \in 1 .. i - 1 /\ 2 \in 1 .. i - 1 /\ (i = 4 => 3 \in 1 .. i - 1)
      BY <1>3
    <2>2. QED
      BY <1>3, <2>1, TargetsAre, NeedsAre
  <1>4. CASE i = 5 \/ i = 6 \/ i = 7
    <2>1. r # NoReview /\ r \in Reviews
      BY <1>4, TargetsAre DEF Revisions
    <2>2. /\ 1 \in 1 .. i - 1 /\ 2 \in 1 .. i - 1 /\ 4 \in 1 .. i - 1
          /\ i # 5 => 5 \in 1 .. i - 1
          /\ i = 7 => 6 \in 1 .. i - 1
      BY <1>4
    <2>3. CASE i = 5
      BY <2>1, <2>2, <2>3, TargetsAre, NeedsAre
    <2>4. CASE i = 6
      BY <2>1, <2>2, <2>4, TargetsAre, NeedsAre
    <2>5. CASE i = 7
      <3>1. Targets(r)[i] = <<"summary", r>>
        BY <2>1, <2>5, TargetsAre
      <3>2. Needs(Targets(r)[i]) = {<<"evaluations">>, <<"batch">>, <<"reviews", r>>,
                                     <<"summary-automatic.json">>}
        BY <2>1, <3>1, NeedsAre
      <3>3. /\ Targets(r)[1] = <<"evaluations">> /\ Targets(r)[2] = <<"batch">>
            /\ Targets(r)[4] = <<"summary-automatic.json">>
            /\ Targets(r)[6] = <<"reviews", r>>
        BY <2>1, TargetsAre
      <3>4. 6 \in 1 .. i - 1
        BY <2>5
      <3>5. QED
        BY <2>2, <3>2, <3>3, <3>4
    <2>6. QED
      BY <1>4, <2>3, <2>4, <2>5
  <1>5. i \in 1 .. 7
    BY TargetsAre
  <1>6. QED
    BY <1>1, <1>2, <1>3, <1>4, <1>5

\* Whatever a target is given is no absence and no part of a file.
LEMMA ContentIs ==
  ASSUME NEW n \in Names, NEW e \in Editions
  PROVE  /\ Content(n, e) \in {Directory} \cup Reviews \cup Editions
         /\ Content(n, e) # Absent /\ Content(n, e) # Torn
PROOF
  <1>1. n \in {"reviews"} \X Reviews => n[2] \in Reviews
    OBVIOUS
  <1>2. Content(n, e) \in {Directory} \cup Reviews \cup Editions
    BY <1>1 DEF Content
  <1>3. QED
    BY <1>2, ContentsAssumption

\* A target that is a directory gets to be one.
LEMMA DirectoryContent ==
  ASSUME NEW n \in Directories, NEW e
  PROVE  Content(n, e) = Directory
PROOF
  <1>1. n \notin {"reviews"} \X Reviews
    BY PairsAreNotSingles DEF Directories
  <1>2. QED
    BY <1>1 DEF Content

-----------------------------------------------------------------------------
(* Types and guards.                                                        *)

Values == {Absent, Torn, Directory} \cup Editions \cup Reviews

PubTypeOK ==
  /\ files \in [Names -> Values] /\ durable \subseteq Names
  /\ pc \in PC
  /\ review \in Revisions /\ edition \in Editions
  /\ pos \in 1 .. Len(Targets(review))
  /\ losses \in Nat /\ faults \in Nat

\* The target of a call in progress is a name, and what it gets is a value.
LEMMA TargetTyped ==
  ASSUME PubTypeOK
  PROVE  /\ pos \in DOMAIN Targets(review) /\ Target \in Names
         /\ Wanted \in Values /\ Wanted # Absent /\ Wanted # Torn
PROOF
  <1>1. pos \in DOMAIN Targets(review) /\ Target \in Names
    BY TargetsAreNames DEF PubTypeOK, Target
  <1>2. QED
    BY <1>1, ContentIs DEF PubTypeOK, Wanted, Values

\* How a call goes on, whatever it did for the target.
LEMMA CallGoesOn ==
  ASSUME PubTypeOK, Advance \/ GiveUp
  PROVE  /\ review' \in Revisions /\ edition' \in Editions
         /\ pos' \in 1 .. Len(Targets(review'))
         /\ pc' \in {"idle", "check"}
PROOF
  <1>1. Len(Targets(review)) \in Nat /\ Len(Targets(review)) >= 4
    BY TargetsAreNames DEF PubTypeOK
  <1>2. review' = review /\ edition' = edition
    BY DEF Advance, GiveUp
  <1>3. pos' \in 1 .. Len(Targets(review)) /\ pc' \in {"idle", "check"}
    BY <1>1 DEF Advance, GiveUp, PubTypeOK
  <1>4. QED
    BY <1>2, <1>3 DEF PubTypeOK

\* A sync of a directory keeps durable a set of names.
LEMMA SyncTyped ==
  ASSUME PubTypeOK, NEW d, SyncOf(d)
  PROVE  durable' \subseteq Names
PROOF
  BY DEF PubTypeOK, SyncOf, Visible

\* Every step keeps the types.
LEMMA TypesKept ==
  ASSUME PubTypeOK, [PubNext]_pubVars
  PROVE  PubTypeOK'
PROOF
  <1> USE TargetTyped
  <1>1. ASSUME NEW e \in Editions, NEW r \in Revisions, Publish(e, r)
        PROVE  PubTypeOK'
    <2>1. 1 \in 1 .. Len(Targets(r))
      BY TargetsAreNames
    <2>2. QED
      BY <1>1, <2>1 DEF PubTypeOK, Publish, treeVars, budgetVars, PC
  <1>2. CASE AlreadyThere \/ Conflict
    BY <1>2, CallGoesOn
    DEF AlreadyThere, Conflict, PubTypeOK, treeVars, budgetVars, PC
  <1>3. CASE MakeDirectory \/ Link
    BY <1>3 DEF MakeDirectory, Link, PubTypeOK, Values, budgetVars, PC
  <1>4. CASE SyncMade \/ Unlink \/ UnlinkRaising
    BY <1>4, CallGoesOn, SyncTyped
    DEF SyncMade, Unlink, UnlinkRaising, PubTypeOK, budgetVars, PC
  <1>5. CASE WriteTemp \/ SyncTemp
    BY <1>5 DEF WriteTemp, SyncTemp, PubTypeOK, treeVars, budgetVars, PC
  <1>6. CASE SyncLink
    BY <1>6, SyncTyped DEF SyncLink, PubTypeOK, budgetVars, PC
  <1>7. CASE Fails \/ Kill
    BY <1>7, CallGoesOn DEF Fails, Kill, PubTypeOK, treeVars, PC
  <1>8. CASE PowerLoss
    <2>1. files' \in [Names -> Values]
      BY <1>8 DEF PowerLoss, PubTypeOK, Values, Visible, Rooted
    <2>2. durable' \subseteq Names /\ losses' \in Nat /\ faults' = faults /\ GiveUp
      BY <1>8 DEF PowerLoss, PubTypeOK
    <2>3. QED
      BY <2>1, <2>2, CallGoesOn DEF PubTypeOK, PC
  <1>9. CASE UNCHANGED pubVars
    BY <1>9 DEF pubVars, PubTypeOK, treeVars, callVars, budgetVars, Target, Wanted
  <1>10. QED
    BY <1>1, <1>2, <1>3, <1>4, <1>5, <1>6, <1>7, <1>8, <1>9
    DEF PubNext, Calls, PubWork, Revisions

\* The types hold of every behaviour.
THEOREM PublicationTyped == PubSpec => []PubTypeOK
PROOF
  <1>1. PubInit => PubTypeOK
    <2>1. 1 \in 1 .. Len(Targets(NoReview))
      BY TargetsAreNames DEF Revisions
    <2>2. QED
      BY <2>1 DEF PubInit, PubTypeOK, Values, Revisions, PC
  <1>2. QED
    BY <1>1, TypesKept, PTL DEF PubSpec

(* Nothing that is published is replaced: every step that makes a name has
   found it absent.                                                         *)
THEOREM PublishedStands == PubSpec => NeverReplaced
PROOF
  <1>1. ASSUME PubTypeOK, [PubNext]_pubVars
        PROVE  \A n \in Visible : files'[n] = files[n] \/ losses' # losses
    <2>1. ASSUME NEW e \in Editions, NEW r \in Revisions, Publish(e, r)
          PROVE  files' = files
      BY <2>1 DEF Publish, treeVars
    <2>2. CASE AlreadyThere \/ Conflict \/ SyncMade \/ WriteTemp \/ SyncTemp
                \/ SyncLink \/ Unlink \/ UnlinkRaising \/ Fails \/ Kill
      BY <2>2 DEF AlreadyThere, Conflict, SyncMade, WriteTemp, SyncTemp, SyncLink,
                  Unlink, UnlinkRaising, Fails, Kill, treeVars
    <2>3. CASE MakeDirectory \/ Link
      BY <1>1, <2>3 DEF MakeDirectory, Link, PubTypeOK, Visible
    <2>4. CASE PowerLoss
      BY <1>1, <2>4 DEF PowerLoss, PubTypeOK
    <2>5. CASE UNCHANGED pubVars
      BY <2>5 DEF pubVars, treeVars
    <2>6. QED
      BY <1>1, <2>1, <2>2, <2>3, <2>4, <2>5 DEF PubNext, Calls, PubWork, Revisions
  <1>2. QED
    BY <1>1, PublicationTyped, PTL DEF PubSpec, NeverReplaced
-----------------------------------------------------------------------------
(* Wholeness.                                                               *)

\* The bytes are synced before their name is made, and until then the name
\* is absent; so no name shows a part of a file.
FilesAreWhole ==
  /\ \A n \in Names : files[n] # Torn
  /\ pc \in {"link", "sync_link", "unlink"} => temp = "synced"
  /\ pc \in {"sync_temp", "link"} => files[Target] = Absent
  /\ pc = "unlink_raising" => temp = "synced" \/ files[Target] = Absent

\* A power loss takes names away and leaves no part of a file.
LEMMA LossTakesNames ==
  ASSUME PubTypeOK, FilesAreWhole, PowerLoss
  PROVE  \E lost \in SUBSET (Visible \ durable) :
           files' = [n \in Names |-> IF n \in Rooted(Visible \ lost)
                                     THEN files[n] ELSE Absent]
PROOF
  <1>1. PICK lost \in SUBSET (Visible \ durable) :
          LET keep == Rooted(Visible \ lost)
              soft == IF temp = "written" /\ pc \in {"sync_link", "unlink_raising"}
                      THEN {Target} ELSE {}
          IN \E torn \in SUBSET (soft \cap keep) :
               files' = [n \in Names |-> IF n \in torn THEN Torn
                                         ELSE IF n \in keep THEN files[n]
                                         ELSE Absent]
    BY DEF PowerLoss
  <1> DEFINE keep == Rooted(Visible \ lost)
             soft == IF temp = "written" /\ pc \in {"sync_link", "unlink_raising"}
                     THEN {Target} ELSE {}
  <1>2. soft \cap keep = {}
    <2>1. keep \subseteq Visible
      BY DEF Rooted
    <2>2. temp = "written" /\ pc \in {"sync_link", "unlink_raising"}
            => files[Target] = Absent
      BY DEF FilesAreWhole
    <2>3. QED
      BY <2>1, <2>2 DEF Visible
  <1>3. PICK torn \in SUBSET (soft \cap keep) :
          files' = [n \in Names |-> IF n \in torn THEN Torn
                                    ELSE IF n \in keep THEN files[n]
                                    ELSE Absent]
    BY <1>1
  <1>4. torn = {}
    BY <1>2
  <1>5. files' = [n \in Names |-> IF n \in keep THEN files[n] ELSE Absent]
    BY <1>3, <1>4
  <1>6. QED
    BY <1>5

\* Every step keeps files whole.
LEMMA WholenessKept ==
  ASSUME PubTypeOK, FilesAreWhole, [PubNext]_pubVars
  PROVE  FilesAreWhole'
PROOF
  <1> USE TargetTyped, ContentsAssumption
  <1>1. ASSUME NEW e \in Editions, NEW r \in Revisions, Publish(e, r)
        PROVE  FilesAreWhole'
    BY <1>1 DEF FilesAreWhole, Publish, treeVars
  <1>2. CASE AlreadyThere \/ Conflict \/ SyncMade \/ Unlink \/ UnlinkRaising
    <2>1. files' = files /\ pc' \in {"idle", "check"}
      BY <1>2 DEF AlreadyThere, Conflict, SyncMade, Unlink, UnlinkRaising,
                  Advance, GiveUp, treeVars
    <2>2. QED
      BY <2>1 DEF FilesAreWhole
  <1>3. CASE MakeDirectory \/ Link
    <2>1. files' = [files EXCEPT ![Target] = Wanted]
      BY <1>3, DirectoryContent DEF MakeDirectory, Link, Wanted
    <2>2. \A n \in Names : files'[n] # Torn
      BY <2>1 DEF FilesAreWhole, PubTypeOK
    <2>3. pc' = "sync_made" \/ (pc' = "sync_link" /\ temp' = "synced")
      BY <1>3 DEF MakeDirectory, Link, FilesAreWhole
    <2>4. QED
      BY <2>2, <2>3 DEF FilesAreWhole
  <1>4. CASE WriteTemp \/ SyncTemp
    BY <1>4 DEF WriteTemp, SyncTemp, FilesAreWhole, treeVars, Target
  <1>5. CASE SyncLink
    BY <1>5 DEF SyncLink, FilesAreWhole
  <1>6. CASE Fails \/ Kill
    BY <1>6 DEF Fails, Kill, GiveUp, FilesAreWhole, treeVars, Target
  <1>7. CASE PowerLoss
    <2>1. \A n \in Names : files'[n] # Torn
      BY <1>7, LossTakesNames DEF FilesAreWhole
    <2>2. pc' = "idle"
      BY <1>7 DEF PowerLoss, GiveUp
    <2>3. QED
      BY <2>1, <2>2 DEF FilesAreWhole
  <1>8. CASE UNCHANGED pubVars
    BY <1>8 DEF pubVars, FilesAreWhole, treeVars, callVars, Target
  <1>9. QED
    BY <1>1, <1>2, <1>3, <1>4, <1>5, <1>6, <1>7, <1>8
    DEF PubNext, Calls, PubWork, Revisions

\* No behaviour shows a part of a file.
THEOREM PublishedFilesAreWhole == PubSpec => [](FilesAreWhole /\ ArtifactsAreWhole)
PROOF
  <1>1. PubInit => FilesAreWhole
    BY ContentsAssumption DEF PubInit, FilesAreWhole
  <1>2. FilesAreWhole => ArtifactsAreWhole
    BY DEF FilesAreWhole, ArtifactsAreWhole
  <1>3. QED
    BY <1>1, <1>2, WholenessKept, PublicationTyped, PTL DEF PubSpec

-----------------------------------------------------------------------------
(* Order and durability.                                                    *)

\* What the properties need: the power stayed on or no creation was cut off.
Safe == losses = 0 \/ ~interrupted

\* The targets before the one in progress have what the call publishes; so
\* has the one in progress, once it is made.
CallHasPublished ==
  /\ pc # "idle" =>
       \A j \in 1 .. pos - 1 :
         files[Targets(review)[j]] = Content(Targets(review)[j], edition)
  /\ pc \in {"sync_made", "sync_link", "unlink"} => files[Target] = Wanted

\* Everything visible has what it needs beside it.
NeedsAreVisible == \A n \in Visible : Needs(n) \subseteq Visible

\* What calls published is there.
ReturnedIsThere ==
  \A a \in returned : a[1] \in Names /\ files[a[1]] = a[2] /\ a[2] # Absent

\* Nothing depends yet on a name just made: neither something visible nor a
\* call that returned.
MadeIsFree ==
  pc \in {"sync_made", "sync_link"} =>
    /\ \A n \in Visible : n = Target \/ Target \notin Needs(n)
    /\ \A a \in returned : a[1] # Target

\* Only that name can be lost.
OthersAreDurable ==
  ~interrupted => \A n \in Visible \ durable :
                    pc \in {"sync_made", "sync_link"} /\ n = Target

Ordered ==
  /\ CallHasPublished /\ NeedsAreVisible /\ ReturnedIsThere
  /\ MadeIsFree /\ OthersAreDurable

\* A call that goes on has published its target, and a call that returns all
\* of them.
LEMMA AdvanceKept ==
  ASSUME PubTypeOK, Ordered, pc # "idle", files[Target] = Wanted,
         files' = files, Advance
  PROVE  CallHasPublished' /\ ReturnedIsThere'
PROOF
  <1> DEFINE Done(j) ==
        files[Targets(review)[j]] = Content(Targets(review)[j], edition)
  <1>1. /\ Len(Targets(review)) \in Nat /\ pos \in 1 .. Len(Targets(review))
        /\ DOMAIN Targets(review) = 1 .. Len(Targets(review))
    BY TargetsAreNames DEF PubTypeOK
  <1>2. \A j \in 1 .. pos : Done(j)
    <2>1. \A j \in 1 .. pos - 1 : Done(j)
      BY DEF Ordered, CallHasPublished
    <2>2. Done(pos)
      BY DEF Target, Wanted
    <2>3. \A j \in 1 .. pos : j = pos \/ j \in 1 .. pos - 1
      BY <1>1
    <2>4. QED
      BY <2>1, <2>2, <2>3
  <1>3. CASE pos < Len(Targets(review))
    <2>1. /\ pos' = pos + 1 /\ pc' = "check"
          /\ review' = review /\ edition' = edition /\ returned' = returned
      BY <1>3 DEF Advance
    <2>2. pos' - 1 = pos
      BY <1>1, <2>1
    <2>3. CallHasPublished'
      BY <1>2, <2>1, <2>2 DEF CallHasPublished
    <2>4. QED
      BY <2>1, <2>3 DEF Ordered, ReturnedIsThere
  <1>4. CASE ~(pos < Len(Targets(review)))
    <2>1. pos = Len(Targets(review))
      <3>1. \A l \in Nat : \A p \in 1 .. l : ~(p < l) => p = l
        OBVIOUS
      <3>2. QED
        BY <1>1, <1>4, <3>1
    <2>2. CallHasPublished'
      BY <1>4 DEF Advance, CallHasPublished
    <2>3. \A i \in DOMAIN Targets(review) :
            /\ Targets(review)[i] \in Names /\ Done(i)
            /\ Content(Targets(review)[i], edition) # Absent
      BY <1>1, <1>2, <2>1, TargetsAreNames, ContentIs DEF PubTypeOK
    <2>4. \A a \in returned' : a \in returned
            \/ \E i \in DOMAIN Targets(review) :
                 a = <<Targets(review)[i], Content(Targets(review)[i], edition)>>
      BY <1>4 DEF Advance
    <2>5. ReturnedIsThere'
      BY <2>3, <2>4 DEF Ordered, ReturnedIsThere
    <2>6. QED
      BY <2>2, <2>5
  <1>5. QED
    BY <1>3, <1>4

\* A target is made when all it needs is there and nothing needs it yet.
LEMMA MakingKept ==
  ASSUME PubTypeOK, FilesAreWhole, Ordered, MakeDirectory \/ Link
  PROVE  Ordered'
PROOF
  <1> USE TargetTyped
  <1>1. /\ files[Target] = Absent
        /\ files' = [files EXCEPT ![Target] = Wanted]
        /\ UNCHANGED <<durable, pos, edition, review, returned, interrupted>>
        /\ pc # "idle" /\ pc \notin {"sync_made", "sync_link", "unlink"}
        /\ pc' \in {"sync_made", "sync_link"}
    BY DirectoryContent DEF MakeDirectory, Link, Wanted
  <1>2. Target' = Target /\ Wanted' = Wanted
    BY <1>1 DEF Target, Wanted
  <1>3. /\ files'[Target] = Wanted /\ Wanted # Absent
        /\ \A n \in Names : n # Target => files'[n] = files[n]
        /\ Visible' = Visible \cup {Target} /\ Target \notin Visible
    BY <1>1 DEF PubTypeOK, Visible
  <1>4. /\ Len(Targets(review)) \in Nat /\ pos \in 1 .. Len(Targets(review))
        /\ \A j \in 1 .. pos - 1 : j \in DOMAIN Targets(review)
    BY TargetsAreNames DEF PubTypeOK
  <1>5. \A j \in 1 .. pos - 1 :
          /\ Targets(review)[j] \in Names
          /\ files[Targets(review)[j]] = Content(Targets(review)[j], edition)
          /\ files[Targets(review)[j]] # Absent
    BY <1>1, <1>4, TargetsAreNames, ContentIs
    DEF Ordered, CallHasPublished, PubTypeOK
  <1>6. CallHasPublished'
    <2>1. \A j \in 1 .. pos - 1 : Targets(review)[j] # Target
      BY <1>1, <1>5
    <2>2. QED
      BY <1>1, <1>2, <1>3, <1>5, <2>1 DEF CallHasPublished
  <1>7. NeedsAreVisible'
    <2>1. Needs(Target) \subseteq Visible \cup {Target}
      BY <1>4, <1>5, NeedsComeFirst, TargetsAreNames DEF Visible, Target, PubTypeOK
    <2>2. QED
      BY <1>3, <2>1 DEF Ordered, NeedsAreVisible
  <1>8. ReturnedIsThere'
    BY <1>1, <1>3 DEF Ordered, ReturnedIsThere
  <1>9. MadeIsFree'
    <2>1. \A n \in Visible : Target \notin Needs(n)
      BY <1>3 DEF Ordered, NeedsAreVisible
    <2>2. \A a \in returned : a[1] # Target
      BY <1>1 DEF Ordered, ReturnedIsThere
    <2>3. QED
      BY <1>1, <1>2, <1>3, <2>1, <2>2 DEF MadeIsFree
  <1>10. OthersAreDurable'
    BY <1>1, <1>2, <1>3 DEF Ordered, OthersAreDurable
  <1>11. QED
    BY <1>6, <1>7, <1>8, <1>9, <1>10 DEF Ordered

\* A sync of the directory of the name just made makes everything durable.
LEMMA SyncingMakesDurable ==
  ASSUME PubTypeOK, Ordered, files' = files, interrupted' = interrupted,
         SyncOf(Parent(Target))
  PROVE  OthersAreDurable'
PROOF
  <1>1. \A n \in Visible : n = Target => n \in durable'
    BY DEF SyncOf
  <1>2. ~interrupted => Visible \subseteq durable'
    BY <1>1 DEF Ordered, OthersAreDurable, SyncOf
  <1>3. Visible' = Visible
    BY DEF Visible
  <1>4. QED
    BY <1>2, <1>3 DEF OthersAreDurable

\* What a step leaves of the order when it touches no name.
LEMMA NamesUntouched ==
  ASSUME PubTypeOK, Ordered, files' = files, returned' = returned
  PROVE  NeedsAreVisible' /\ ReturnedIsThere'
PROOF
  BY DEF Ordered, NeedsAreVisible, ReturnedIsThere, Visible

\* A power loss takes at most the name just made, on which nothing depends.
LEMMA LossKept ==
  ASSUME PubTypeOK, FilesAreWhole, Ordered, ~interrupted, PowerLoss
  PROVE  Ordered'
PROOF
  <1> USE TargetTyped
  <1>1. PICK lost \in SUBSET (Visible \ durable) :
          files' = [n \in Names |-> IF n \in Rooted(Visible \ lost)
                                    THEN files[n] ELSE Absent]
    BY LossTakesNames
  <1>2. pc' = "idle" /\ returned' = returned /\ durable' = Visible'
    BY DEF PowerLoss, GiveUp, Visible
  <1>3. lost \subseteq {Target}
        /\ (lost # {} => pc \in {"sync_made", "sync_link"})
    BY DEF Ordered, OthersAreDurable
  <1>4. \A n \in Visible \ lost : Needs(n) \subseteq Visible \ lost
    <2>1. lost = {} => \A n \in Visible \ lost : Needs(n) \subseteq Visible \ lost
      BY DEF Ordered, NeedsAreVisible
    <2>2. lost # {} => lost = {Target} /\ \A n \in Visible \ lost : Target \notin Needs(n)
      BY <1>3 DEF Ordered, MadeIsFree
    <2>3. QED
      BY <2>1, <2>2 DEF Ordered, NeedsAreVisible
  <1>5. Rooted(Visible \ lost) = Visible \ lost
    BY <1>4 DEF Rooted, Needs
  <1>6. /\ \A n \in Names : n \in Visible \ lost => files'[n] = files[n]
        /\ Visible' = Visible \ lost
    BY <1>1, <1>5 DEF Visible, PubTypeOK
  <1>7. CallHasPublished' /\ MadeIsFree' /\ OthersAreDurable'
    BY <1>2 DEF CallHasPublished, MadeIsFree, OthersAreDurable
  <1>8. NeedsAreVisible'
    BY <1>4, <1>6 DEF NeedsAreVisible
  <1>9. ReturnedIsThere'
    <2>1. \A a \in returned : a[1] \in Visible \ lost
      BY <1>3 DEF Ordered, ReturnedIsThere, MadeIsFree, Visible
    <2>2. QED
      BY <1>2, <1>6, <2>1 DEF Ordered, ReturnedIsThere, Visible
  <1>10. QED
    BY <1>7, <1>8, <1>9 DEF Ordered

\* Every step keeps the order.
LEMMA OrderKept ==
  ASSUME PubTypeOK, FilesAreWhole, Safe => Ordered, [PubNext]_pubVars
  PROVE  Safe' => Ordered'
PROOF
  <1> SUFFICES ASSUME Safe'
               PROVE  Ordered'
    OBVIOUS
  <1>1. ASSUME NEW e \in Editions, NEW r \in Revisions, Publish(e, r)
        PROVE  Ordered'
    <2>1. /\ files' = files /\ returned' = returned /\ durable' = durable
          /\ interrupted' = interrupted /\ losses' = losses
          /\ pc = "idle" /\ pc' = "check" /\ pos' = 1
      BY <1>1 DEF Publish, treeVars, budgetVars
    <2>2. Ordered
      BY <2>1 DEF Safe
    <2>3. CallHasPublished' /\ MadeIsFree'
      BY <2>1 DEF CallHasPublished, MadeIsFree
    <2>4. OthersAreDurable'
      BY <2>1, <2>2 DEF Ordered, OthersAreDurable, Visible
    <2>5. QED
      BY <2>1, <2>2, <2>3, <2>4, NamesUntouched DEF Ordered
  <1>2. CASE AlreadyThere
    <2>1. /\ files' = files /\ durable' = durable /\ interrupted' = interrupted
          /\ losses' = losses /\ pc = "check" /\ files[Target] = Wanted /\ Advance
      BY <1>2 DEF AlreadyThere, treeVars, budgetVars
    <2>2. Ordered /\ pc' \in {"idle", "check"}
      BY <2>1 DEF Safe, Advance
    <2>3. CallHasPublished' /\ ReturnedIsThere'
      BY <2>1, <2>2, AdvanceKept
    <2>4. NeedsAreVisible' /\ MadeIsFree' /\ OthersAreDurable'
      BY <2>1, <2>2
      DEF Ordered, NeedsAreVisible, MadeIsFree, OthersAreDurable, Visible
    <2>5. QED
      BY <2>3, <2>4 DEF Ordered
  <1>3. CASE SyncMade \/ Unlink
    <2>1. /\ files' = files /\ interrupted' = interrupted /\ losses' = losses
          /\ pc \in {"sync_made", "unlink"} /\ SyncOf(Parent(Target)) /\ Advance
      BY <1>3 DEF SyncMade, Unlink, budgetVars
    <2>2. Ordered /\ pc' \in {"idle", "check"}
      BY <2>1 DEF Safe, Advance
    <2>3. CallHasPublished' /\ ReturnedIsThere'
      BY <2>1, <2>2, AdvanceKept DEF Ordered, CallHasPublished
    <2>4. OthersAreDurable'
      BY <2>1, <2>2, SyncingMakesDurable
    <2>5. NeedsAreVisible' /\ MadeIsFree'
      BY <2>1, <2>2 DEF Ordered, NeedsAreVisible, MadeIsFree, Visible
    <2>6. QED
      BY <2>3, <2>4, <2>5 DEF Ordered
  <1>4. CASE MakeDirectory \/ Link
    <2>1. losses' = losses /\ interrupted' = interrupted
      BY <1>4 DEF MakeDirectory, Link, budgetVars
    <2>2. QED
      BY <1>4, <2>1, MakingKept DEF Safe
  <1>5. CASE WriteTemp \/ SyncTemp
    <2>1. /\ files' = files /\ returned' = returned /\ durable' = durable
          /\ interrupted' = interrupted /\ losses' = losses
          /\ pos' = pos /\ edition' = edition /\ review' = review
          /\ pc \in {"check", "sync_temp"} /\ pc' \in {"sync_temp", "link"}
      BY <1>5 DEF WriteTemp, SyncTemp, treeVars, budgetVars
    <2>2. Ordered
      BY <2>1 DEF Safe
    <2>3. CallHasPublished' /\ MadeIsFree'
      BY <2>1, <2>2 DEF Ordered, CallHasPublished, MadeIsFree
    <2>4. OthersAreDurable'
      BY <2>1, <2>2 DEF Ordered, OthersAreDurable, Visible
    <2>5. QED
      BY <2>1, <2>2, <2>3, <2>4, NamesUntouched DEF Ordered
  <1>6. CASE SyncLink
    <2>1. /\ files' = files /\ returned' = returned
          /\ interrupted' = interrupted /\ losses' = losses
          /\ pos' = pos /\ edition' = edition /\ review' = review
          /\ pc = "sync_link" /\ pc' = "unlink" /\ SyncOf(Parent(Target))
      BY <1>6 DEF SyncLink, budgetVars
    <2>2. Ordered
      BY <2>1 DEF Safe
    <2>3. CallHasPublished' /\ MadeIsFree'
      BY <2>1, <2>2 DEF Ordered, CallHasPublished, MadeIsFree, Target, Wanted
    <2>4. OthersAreDurable'
      BY <2>1, <2>2, SyncingMakesDurable
    <2>5. QED
      BY <2>1, <2>2, <2>3, <2>4, NamesUntouched DEF Ordered
  <1>7. CASE Conflict \/ UnlinkRaising
    <2>1. /\ files' = files /\ returned' = returned
          /\ interrupted' = interrupted /\ losses' = losses /\ pc' = "idle"
      BY <1>7 DEF Conflict, UnlinkRaising, GiveUp, treeVars, budgetVars
    <2>2. Ordered
      BY <2>1 DEF Safe
    <2>3. CallHasPublished' /\ MadeIsFree'
      BY <2>1 DEF CallHasPublished, MadeIsFree
    <2>4. OthersAreDurable'
      <3>1. CASE Conflict
        BY <2>1, <2>2, <3>1
        DEF Conflict, Ordered, OthersAreDurable, Visible, treeVars
      <3>2. CASE UnlinkRaising
        BY <2>1, <2>2, <3>2, SyncingMakesDurable DEF UnlinkRaising
      <3>3. QED
        BY <1>7, <3>1, <3>2
    <2>5. QED
      BY <2>1, <2>2, <2>3, <2>4, NamesUntouched DEF Ordered
  <1>8. CASE Fails \/ Kill
    <2>1. /\ files' = files /\ returned' = returned /\ durable' = durable
          /\ interrupted' = (interrupted \/ Pending) /\ losses' = losses
      BY <1>8 DEF Fails, Kill, treeVars
    <2>2. Ordered
      BY <2>1 DEF Safe
    <2>3. OthersAreDurable'
      BY <2>1 DEF OthersAreDurable, Pending, Visible
    <2>4. CallHasPublished' /\ MadeIsFree'
      <3>1. CASE pc' = "idle"
        BY <3>1 DEF CallHasPublished, MadeIsFree
      <3>2. CASE pc' # "idle"
        <4>1. /\ pc # "idle" /\ pc' = "unlink_raising"
              /\ pos' = pos /\ edition' = edition /\ review' = review
          BY <1>8, <3>2 DEF Fails, Kill, GiveUp
        <4>2. QED
          BY <2>1, <2>2, <4>1 DEF Ordered, CallHasPublished, MadeIsFree
      <3>3. QED
        BY <3>1, <3>2
    <2>5. QED
      BY <2>1, <2>2, <2>3, <2>4, NamesUntouched DEF Ordered
  <1>9. CASE PowerLoss
    <2>1. interrupted' = interrupted /\ losses' = losses + 1 /\ losses \in Nat
      BY <1>9 DEF PowerLoss, PubTypeOK
    <2>2. losses' # 0
      BY <2>1
    <2>3. ~interrupted
      BY <2>1, <2>2 DEF Safe
    <2>4. QED
      BY <1>9, <2>3, LossKept DEF Safe
  <1>10. CASE UNCHANGED pubVars
    BY <1>10 DEF pubVars, treeVars, callVars, budgetVars, Safe, Ordered,
       CallHasPublished, NeedsAreVisible, ReturnedIsThere, MadeIsFree,
       OthersAreDurable, Visible, Target, Wanted
  <1>11. QED
    BY <1>1, <1>2, <1>3, <1>4, <1>5, <1>6, <1>7, <1>8, <1>9, <1>10
    DEF PubNext, Calls, PubWork, Revisions

\* In every behaviour the order holds as long as it is safe.
THEOREM PublicationIsOrdered == PubSpec => [](Safe => Ordered)
PROOF
  <1>1. PubInit => (Safe => Ordered)
    BY DEF PubInit, Ordered, CallHasPublished, NeedsAreVisible, ReturnedIsThere,
           MadeIsFree, OthersAreDurable, Visible
  <1>2. QED
    BY <1>1, OrderKept, PublicationTyped, PublishedFilesAreWhole, PTL DEF PubSpec

(* What a call that returned has published stays there, through every error
   and kill, and through a power loss unless some creation was cut off.     *)
THEOREM ReturnedStays == PubSpec => []ReturnedSurvives
PROOF
  <1>1. (Safe => Ordered) => ReturnedSurvives
    BY DEF Safe, Ordered, ReturnedIsThere, ReturnedSurvives
  <1>2. QED
    BY <1>1, PublicationIsOrdered, PTL

(* A summary that can be seen has the records it summarizes beside it.      *)
THEOREM SummariesHaveRecords == PubSpec => []SummaryHasRecords
PROOF
  <1>1. (Safe => Ordered) => SummaryHasRecords
    <2>1. SUFFICES ASSUME Ordered
                   PROVE  /\ <<"summary-automatic.json">> \in Visible =>
                               <<"automatic.jsonl">> \in Visible
                          /\ \A r \in Reviews :
                               <<"summary", r>> \in Visible =>
                                 {<<"reviews", r>>, <<"summary-automatic.json">>}
                                   \subseteq Visible
      BY DEF Safe, SummaryHasRecords
    <2>2. QED
      BY <2>1, NeedsAre DEF Ordered, NeedsAreVisible
  <1>2. QED
    BY <1>1, PublicationIsOrdered, PTL
=============================================================================
