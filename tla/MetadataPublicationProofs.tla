----------------------- MODULE MetadataPublicationProofs -----------------------
(***************************************************************************)
(* What MetadataPublication promises, for every set of files and bodies    *)
(* and every number of publications and of writes by others.               *)
(*                                                                         *)
(* Shape and Fresh say what each step may take for granted.  On them rest  *)
(* three invariants, each of which carries one property: Restorable for    *)
(* JournalCanBeRecovered, Attributed for UnseenIsKept, Accounted for       *)
(* AllOrNothing.                                                           *)
(***************************************************************************)
EXTENDS MetadataPublication, TLAPS

Busy == {"publishing", "copying", "replacing", "exchanged", "verifying"}
AtFile == {"copying", "replacing", "exchanged", "verifying"}
Resting == {"down", "loading", "idle"}

\* Who works on what: identifiers, journals still to be recovered, what has a row.
Shape ==
    /\ preview # NoPlan => pc = "idle" /\ preview.id = begun + 1
    /\ pc \in Resting => now = NoPlan /\ ~back /\ done = {}
    /\ serving => todo = {} /\ pc \notin {"down", "loading"}
    /\ ~serving => /\ pc \notin {"idle", "checking", "journaling", "recorded", "discarding"}
                   /\ pc \in Busy => back
    /\ todo \subseteq journals /\ now \notin todo
    /\ \A p \in journals : p.id \in 1..begun
    /\ recorded \subseteq 1..begun
    /\ pc \in {"checking", "journaling"} =>
           now.id = begun /\ now.id \notin recorded /\ begun > 0 /\ ~back /\ done = {}
    /\ pc \in Busy => now.id \notin recorded
    /\ pc \in AtFile => at \notin done /\ ActionOf(now, at) # "unchanged"
    /\ pc \in {"replacing", "exchanged"} => ActionOf(now, at) = "replace"
    /\ pc = "copying" => ActionOf(now, at) = "create" /\ ~back
    /\ pc = "recorded" => now.id \in recorded

\* A file that nobody wrote since it was looked at is as the preview saw it.
Fresh ==
    /\ preview # NoPlan =>
           \A a \in Selected(preview) \ stale : file[a] = preview.orig[a] /\ unseen[a] = None
    /\ pc \in {"checking", "journaling"} =>
           \A a \in Selected(now) \ stale : file[a] = now.orig[a] /\ unseen[a] = None
    /\ pc = "journaling" =>
           \A a \in Selected(now) : now.orig[a] # now.body[a] => file[a] # now.body[a]
    /\ pc = "copying" /\ at \notin stale => file[at] = Partial

\* Only publications change the files of the one journal, between what it says was there and
\* what it says is to be there.
Untouched == ~touched /\ ~overlapped
OneJournal == ~overlapped => \A p, q \in journals : p = q
AsPreviewed == ~touched /\ pc \in {"checking", "journaling"} =>
                   \A a \in Selected(now) : file[a] = now.orig[a]
HeldIsKnown == pc = "exchanged" => held \in {now.orig[at], now.body[at]}
DoneIsWritten == pc \in Busy /\ ~back => \A a \in done \cap Selected(now) : file[a] = now.body[a]

Restorable ==
    /\ OneJournal /\ AsPreviewed
    /\ Untouched => (\A p \in journals : Recoverable(p)) /\ HeldIsKnown /\ DoneIsWritten

\* What others wrote unseen has its name, or was just exchanged for the replacement and
\* will be looked at.
ThereOrHeld ==
    \A a \in Artifacts :
        IF pc = "exchanged" /\ at = a /\ a \notin stale
        THEN unseen[a] = None \/ (~matches /\ unseen[a] = held)
        ELSE unseen[a] \in {None, file[a]}
NeverProposed ==
    /\ \A p \in journals : \A a \in Selected(p) : unseen[a] = None \/ unseen[a] # p.body[a]
    /\ pc = "journaling" =>
           \A a \in Selected(now) : unseen[a] = None \/ unseen[a] # now.body[a]
LeftIsSeen ==
    pc \in Busy => \A a \in Left \ stale :
        (at = a /\ pc \in {"copying", "exchanged", "verifying"}) \/ unseen[a] = None

Attributed == ~unnoticed => ThereOrHeld /\ NeverProposed /\ LeftIsSeen

\* A file is what it should be, or it is the proposed one of the publication under way and
\* should still be the original one, or its place is taken by that and what it should be is
\* held aside.
Tracked == ~overlapped /\ ~unnoticed

OthersAreRight ==
    \A a \in Artifacts : (\A p \in journals : a \notin Selected(p)) => file[a] = sees[a]
PublishedIsRight ==
    \A p \in journals : \A a \in Selected(p) :
        /\ p.id \in recorded => file[a] = sees[a]
        /\ p.id \notin recorded =>
             /\ p.orig[a] # p.body[a] => sees[a] # p.body[a]
             /\ \/ file[a] = sees[a]
                \/ sees[a] = p.orig[a] /\ file[a] \in {p.body[a], Partial} /\ p.orig[a] # p.body[a]
                \/ pc = "exchanged" /\ at = a /\ a \notin stale /\ ~matches
EndIsRight ==
    pc \in {"tidying", "removing", "discarding"} => \A a \in Selected(now) : file[a] = sees[a]
ForwardIsRight ==
    pc \in Busy /\ ~back => \A a \in Selected(now) :
        (at = a /\ pc \in {"copying", "exchanged", "verifying"})
        \/ IF a \in done
           THEN IF a \in stale THEN file[a] = sees[a]
                ELSE file[a] = now.body[a] /\ sees[a] = now.orig[a]
           ELSE file[a] = sees[a] /\ (a \notin stale => file[a] = now.orig[a])
BackIsRight ==
    pc \in Busy /\ back => \A a \in Left :
        (at = a /\ pc \in {"exchanged", "verifying"})
        \/ IF a \in stale THEN file[a] = sees[a]
           ELSE file[a] = now.body[a] /\ sees[a] = now.orig[a]
CopyingIsRight ==
    pc = "copying" =>
        IF at \in stale THEN file[at] = sees[at]
        ELSE file[at] = Partial /\ sees[at] = now.orig[at]
VerifyingIsRight ==
    pc = "verifying" =>
        IF at \in stale THEN file[at] = sees[at]
        ELSE file[at] = NewBody(at) /\ sees[at] = now.orig[at]
ExchangedIsRight ==
    pc = "exchanged" =>
        IF at \in stale THEN file[at] = sees[at]
        ELSE /\ file[at] = NewBody(at)
             /\ IF back /\ matches THEN sees[at] = now.orig[at] /\ held = now.body[at]
                ELSE sees[at] = held /\ (matches => held = now.orig[at])

Accounted ==
    Tracked => /\ OthersAreRight /\ PublishedIsRight /\ EndIsRight
               /\ ForwardIsRight /\ BackIsRight
               /\ CopyingIsRight /\ VerifyingIsRight /\ ExchangedIsRight

\* The inductive invariant.
Trust == TypeOK /\ Shape /\ Fresh /\ Restorable /\ Attributed /\ Accounted

--------------------------------------------------------------------------------
USE DEF Goto, Stay, NoSwap, Leave, disk, step, count, history

\* The empty plan is one.
LEMMA NoPlanIsPlan == NoPlan \in Plans /\ NoPlan.id = 0 /\ Selected(NoPlan) = {}
BY MetadataAssumption DEF NoPlan, Selected, Plans, Files, Whole

\* The parts of a plan.
LEMMA PlanParts ==
    ASSUME NEW p \in Plans
    PROVE  /\ p.id \in 0..MaxPublications
           /\ \A a \in Artifacts : p.orig[a] \in Files /\ p.body[a] \in Whole
           /\ \A a \in Artifacts : a \in Selected(p) <=> p.body[a] # None
           /\ Selected(p) \subseteq Artifacts
BY DEF Plans, Selected

\* What the assumption says of files and bounds.
LEMMA FileParts ==
    /\ None \in Whole /\ None \notin Artifacts /\ MaxPublications \in Nat /\ MaxForeign \in Nat
    /\ Partial \in Files /\ Partial \notin Whole /\ Partial # None /\ Whole \subseteq Files
    /\ \A f \in Files : f # None => f \in Files \ {None}
BY MetadataAssumption DEF Files, Whole

\* In either direction, what is written is a file.
LEMMA NewBodyIsFile ==
    ASSUME now \in Plans, NEW a \in Artifacts
    PROVE  NewBody(a) \in Files
BY PlanParts, FileParts DEF NewBody

\* Where an error leads to.
LEMMA AbortParts ==
    ASSUME Abort
    PROVE  /\ at' = None /\ held' = None /\ matches' = FALSE
           /\ back => /\ now' = NoPlan /\ back' = FALSE /\ done' = {}
                      /\ pc' = IF serving THEN "idle" ELSE "down"
           /\ ~back => now' = now /\ back' = back /\ done' = done /\ pc' = "preflight"
BY DEF Abort

\* Where a conflict leads to.
LEMMA ConflictParts ==
    ASSUME Conflict
    PROVE  /\ at' = None /\ held' = None /\ matches' = FALSE
           /\ back => /\ now' = NoPlan /\ back' = FALSE /\ done' = {}
                      /\ pc' = IF serving THEN "idle" ELSE "down"
           /\ ~back => /\ now' = now /\ back' = back /\ done' = done
                       /\ pc' \in {"preflight", "discarding"}
                       /\ pc' = "discarding" =>
                              \A a \in done : ActionOf(now, a) = "unchanged"
BY DEF Conflict, Abort, Discard

\* Every step keeps the types; past its journal a publication has one on disk.
LEMMA TypeStep ==
    ASSUME TypeOK, Shape, [Next]_vars
    PROVE  TypeOK'
<1> USE NoPlanIsPlan, PlanParts, FileParts DEF TypeOK, Steps
<1>0. CASE UNCHANGED vars
    BY <1>0 DEF vars
<1>1. ASSUME Preview PROVE TypeOK'
    BY <1>1 DEF Preview, Plans
<1>2. ASSUME Begin PROVE TypeOK'
    <2>1. preview.id \in 0..MaxPublications
        BY PlanParts
    <2>2. now' \in Plans /\ preview' \in Plans /\ begun' \in 0..MaxPublications
        BY <1>2, <2>1 DEF Begin
    <2>3. touched' \in BOOLEAN /\ pc' \in {"idle", "checking"}
        BY <1>2 DEF Begin
    <2> QED
        BY <1>2, <2>2, <2>3 DEF Begin
<1>3. ASSUME Check PROVE TypeOK'
    BY <1>3 DEF Check, Same
<1>4. ASSUME PersistJournal PROVE TypeOK'
    BY <1>4 DEF PersistJournal
<1>5. ASSUME PersistFails PROVE TypeOK'
    <2>1. journals' \subseteq Plans /\ overlapped' \in BOOLEAN
        BY <1>5 DEF PersistFails
    <2> QED
        BY <1>5, <2>1 DEF PersistFails
<1>6. ASSUME NEW a \in Artifacts, Unchanged(a) PROVE TypeOK'
    <2>1. CASE file[a] = now.body[a]
        BY <1>6, <2>1 DEF Unchanged, Left, Working
    <2>2. CASE ~(file[a] = now.body[a])
        BY <1>6, <2>2, ConflictParts DEF Unchanged, Left, Working
    <2> QED
        BY <2>1, <2>2
<1>7. ASSUME NEW a \in Artifacts, Create(a) PROVE TypeOK'
    <2>1. CASE file[a] = None
        BY <1>7, <2>1 DEF Create, Left, Working
    <2>2. CASE file[a] # None
        BY <1>7, <2>2, ConflictParts DEF Create, Left, Working
    <2> QED
        BY <2>1, <2>2
<1>8. ASSUME NEW a \in Artifacts, Uncreate(a) PROVE TypeOK'
    <2>1. CASE a \in stale
        BY <1>8, <2>1, AbortParts DEF Uncreate, Left, Working
    <2>2. CASE ~(a \in stale)
        BY <1>8, <2>2 DEF Uncreate, Left, Working
    <2> QED
        BY <2>1, <2>2
<1>9. ASSUME NEW a \in Artifacts, Exchange(a) PROVE TypeOK'
    <2>1. CASE file[a] = None
        <3>1. now \in journals /\ at' = None /\ held' = None /\ matches' = FALSE
            BY <1>9, <2>1, AbortParts DEF Exchange, Working
        <3>2. /\ now' \in Plans /\ back' \in BOOLEAN /\ done' \subseteq Artifacts
              /\ pc' \in {"idle", "down", "preflight"} /\ (pc' = "preflight" => now' = now)
            BY <1>9, <2>1, AbortParts DEF Exchange
        <3> QED
            BY <1>9, <2>1, <3>1, <3>2 DEF Exchange
    <2>2. CASE file[a] # None
        BY <1>9, <2>2, NewBodyIsFile DEF Exchange, Left, Working
    <2> QED
        BY <2>1, <2>2
<1>10. ASSUME NEW a \in Artifacts, Look(a) PROVE TypeOK'
    BY <1>10, AbortParts, ConflictParts DEF Look, Left, Working
<1>11. ASSUME Accept PROVE TypeOK'
    BY <1>11 DEF Accept
<1>12. ASSUME GiveBack PROVE TypeOK'
    <2>1. CASE at \in stale
        BY <1>12, <2>1, AbortParts DEF GiveBack
    <2>2. CASE at \notin stale
        <3>1. at \in Artifacts /\ held \in Files /\ now \in journals
            BY <1>12 DEF GiveBack
        <3>2. /\ file' \in [Artifacts -> Files] /\ aside' \in [Artifacts -> SUBSET (Files \ {None})]
              /\ stale' \subseteq Artifacts
            BY <1>12, <2>2, <3>1 DEF GiveBack
        <3>3. /\ at' = None /\ held' = None /\ matches' = FALSE
              /\ now' \in Plans /\ back' \in BOOLEAN /\ done' \subseteq Artifacts
              /\ pc' \in {"idle", "down", "preflight", "discarding"}
              /\ pc' \in {"preflight", "discarding"} => now' = now
            BY <1>12, <2>2, AbortParts, ConflictParts DEF GiveBack
        <3> QED
            BY <1>12, <2>2, <3>1, <3>2, <3>3 DEF GiveBack
    <2> QED
        BY <2>1, <2>2
<1>13. ASSUME GiveBackFails PROVE TypeOK'
    BY <1>13, AbortParts DEF GiveBackFails
<1>14. ASSUME Replace PROVE TypeOK'
    BY <1>14, NewBodyIsFile DEF Replace
<1>15. ASSUME Verify PROVE TypeOK'
    <2>1. at \in Artifacts /\ now \in journals
        BY <1>15 DEF Verify
    <2>2. CASE file[at] = NewBody(at)
        <3>1. /\ done' = done \cup {at} /\ pc' = "publishing" /\ now' = now /\ back' = back
              /\ at' = None /\ held' = None /\ matches' = FALSE
            BY <1>15, <2>2 DEF Verify
        <3> QED
            BY <1>15, <2>1, <3>1 DEF Verify
    <2>3. CASE file[at] # NewBody(at)
        BY <1>15, <2>3, AbortParts DEF Verify
    <2> QED
        BY <2>2, <2>3
<1>16. ASSUME Fails PROVE TypeOK'
    BY <1>16, AbortParts DEF Fails
<1>17. ASSUME Record PROVE TypeOK'
    <2>1. now.id \in 1..MaxPublications
        BY <1>17 DEF Record, Working, Shape
    <2>2. recorded' = recorded \cup {now.id} /\ pc' \in {"recorded", "preflight"}
        BY <1>17 DEF Record
    <2>3. sees' \in [Artifacts -> Whole]
        BY <1>17 DEF Record
    <2> QED
        BY <1>17, <2>1, <2>2, <2>3 DEF Record, Working
<1>18. ASSUME RemoveJournal PROVE TypeOK'
    BY <1>18 DEF RemoveJournal
<1>19. ASSUME Preflight PROVE TypeOK'
    BY <1>19 DEF Preflight
<1>20. ASSUME RolledBack PROVE TypeOK'
    BY <1>20, AbortParts DEF RolledBack, Left, Working
<1>21. ASSUME Tidy PROVE TypeOK'
    BY <1>21 DEF Tidy
<1>22. ASSUME Recovered PROVE TypeOK'
    BY <1>22 DEF Recovered
<1>23. ASSUME RecoveryFails PROVE TypeOK'
    BY <1>23 DEF RecoveryFails
<1>24. ASSUME StartUp PROVE TypeOK'
    BY <1>24 DEF StartUp
<1>25. ASSUME NextJournal PROVE TypeOK'
    BY <1>25 DEF NextJournal, Shape
<1>26. ASSUME Crash PROVE TypeOK'
    BY <1>26 DEF Crash
<1>27. ASSUME NEW a \in Artifacts, NEW b \in Whole, Foreign(a, b) PROVE TypeOK'
    BY <1>27 DEF Foreign
<1>28. ASSUME Copy PROVE TypeOK'
    BY <1>28 DEF Copy
<1>29. ASSUME CopyFails PROVE TypeOK'
    <2>1. /\ at \in Artifacts /\ now \in journals
          /\ at' = None /\ held' = None /\ matches' = FALSE
          /\ now' \in Plans /\ back' \in BOOLEAN /\ done' \subseteq Artifacts
          /\ pc' \in {"idle", "down", "preflight"} /\ (pc' = "preflight" => now' = now)
        BY <1>29, AbortParts DEF CopyFails
    <2>2. UNCHANGED <<exchange, aside, journals, recorded, preview, serving, todo, stale, count,
                      sees, unseen, touched, overlapped>>
        BY <1>29 DEF CopyFails
    <2>3. CASE UNCHANGED <<file, unnoticed>>
        BY <2>1, <2>2, <2>3
    <2>4. CASE /\ file' = [file EXCEPT ![at] = None]
               /\ unnoticed' = (unnoticed \/ (at \in stale /\ file[at] # None))
        <3>1. unnoticed' \in BOOLEAN
            BY <2>4
        <3>2. file' \in [Artifacts -> Files]
            BY <2>1, <2>4
        <3> QED
            BY <2>1, <2>2, <3>1, <3>2
    <2> QED
        BY <1>29, <2>3, <2>4 DEF CopyFails
<1> QED
    BY <1>0, <1>1, <1>2, <1>3, <1>4, <1>5, <1>6, <1>7, <1>8, <1>9, <1>10, <1>11, <1>12,
        <1>13, <1>14, <1>15, <1>16, <1>17, <1>18, <1>19, <1>20, <1>21, <1>22, <1>23, <1>24,
        <1>25, <1>26, <1>27, <1>28, <1>29 DEF Next, Publish, Recover

\* Every step keeps identifiers, journals to be recovered and rows apart as Shape says.
LEMMA ShapeStep ==
    ASSUME TypeOK, Shape, [Next]_vars
    PROVE  Shape'
<1> USE NoPlanIsPlan, PlanParts, FileParts DEF TypeOK, Shape, Steps, Busy, AtFile, Resting,
        ActionOf
<1>0. CASE UNCHANGED vars
    BY <1>0 DEF vars
<1>1. ASSUME Preview PROVE Shape'
    BY <1>1 DEF Preview
<1>2. ASSUME Begin PROVE Shape'
    <2>1. CASE UNCHANGED <<now, begun, pc, touched>>
        BY <1>2, <2>1 DEF Begin
    <2>2. CASE /\ now' = preview /\ begun' = preview.id /\ pc' = "checking"
        <3>1. /\ preview' = NoPlan /\ begun' = begun + 1 /\ todo = {} /\ serving
              /\ now'.id = begun' /\ back = FALSE /\ done = {}
            BY <1>2, <2>2 DEF Begin
        <3>2. now'.id \notin recorded
            BY <3>1
        <3>3. /\ \A p \in journals : p.id \in 1..begun'
              /\ recorded \subseteq 1..begun'
            BY <3>1
        <3> QED
            BY <1>2, <2>2, <3>1, <3>2, <3>3 DEF Begin
    <2> QED
        BY <1>2, <2>1, <2>2 DEF Begin
<1>3. ASSUME Check PROVE Shape'
    BY <1>3 DEF Check
<1>4. ASSUME PersistJournal PROVE Shape'
    BY <1>4 DEF PersistJournal
<1>5. ASSUME PersistFails PROVE Shape'
    BY <1>5 DEF PersistFails
<1>6. ASSUME NEW a \in Artifacts, Unchanged(a) PROVE Shape'
    BY <1>6 DEF Unchanged, Working, Conflict, Abort, Discard
<1>7. ASSUME NEW a \in Artifacts, Create(a) PROVE Shape'
    <2>1. CASE file[a] = None
        BY <1>7, <2>1 DEF Create, Working, Left
    <2>2. CASE file[a] # None
        BY <1>7, <2>2 DEF Create, Working, Conflict, Abort, Discard
    <2> QED
        BY <2>1, <2>2
<1>8. ASSUME NEW a \in Artifacts, Uncreate(a) PROVE Shape'
    <2>1. CASE a \in stale
        BY <1>8, <2>1 DEF Uncreate, Working, Abort
    <2>2. CASE ~(a \in stale)
        BY <1>8, <2>2 DEF Uncreate, Working
    <2> QED
        BY <2>1, <2>2
<1>9. ASSUME NEW a \in Artifacts, Exchange(a) PROVE Shape'
    <2>1. CASE file[a] = None
        BY <1>9, <2>1 DEF Exchange, Working, Abort
    <2>2. CASE file[a] # None
        BY <1>9, <2>2 DEF Exchange, Working, Left
    <2> QED
        BY <2>1, <2>2
<1>10. ASSUME NEW a \in Artifacts, Look(a) PROVE Shape'
    <2>1. CASE pc' = "replacing"
        <3>1. /\ at' = a /\ now' = now /\ back' = back /\ done' = done /\ a \notin done
              /\ ActionOf(now, a) = "replace"
            BY <1>10, <2>1 DEF Look, Working, Left, Conflict, Abort, Discard
        <3> QED
            BY <1>10, <2>1, <3>1 DEF Look, Working
    <2>2. CASE pc' # "replacing"
        BY <1>10, <2>2 DEF Look, Working, Conflict, Abort, Discard
    <2> QED
        BY <2>1, <2>2
<1>11. ASSUME Accept PROVE Shape'
    BY <1>11 DEF Accept
<1>12. ASSUME GiveBack PROVE Shape'
    BY <1>12 DEF GiveBack, Conflict, Abort, Discard
<1>13. ASSUME GiveBackFails PROVE Shape'
    BY <1>13 DEF GiveBackFails, Abort
<1>14. ASSUME Replace PROVE Shape'
    BY <1>14 DEF Replace
<1>15. ASSUME Verify PROVE Shape'
    BY <1>15 DEF Verify, Abort
<1>16. ASSUME Fails PROVE Shape'
    BY <1>16 DEF Fails, Abort
<1>17. ASSUME Record PROVE Shape'
    <2>1. now.id \in 1..begun /\ now \notin todo
        BY <1>17 DEF Record, Working
    <2>2. recorded' = recorded \cup {now.id} /\ pc' \in {"recorded", "preflight"}
        BY <1>17 DEF Record
    <2>3. recorded' \subseteq 1..begun' /\ now'.id \in recorded'
        BY <1>17, <2>1, <2>2 DEF Record
    <2> QED
        BY <1>17, <2>1, <2>2, <2>3 DEF Record, Working
<1>18. ASSUME RemoveJournal PROVE Shape'
    BY <1>18 DEF RemoveJournal
<1>19. ASSUME Preflight PROVE Shape'
    BY <1>19 DEF Preflight
<1>20. ASSUME RolledBack PROVE Shape'
    <2>1. CASE \A a \in Selected(now) : file[a] = now.orig[a]
        BY <1>20, <2>1 DEF RolledBack, Working
    <2>2. CASE ~(\A a \in Selected(now) : file[a] = now.orig[a])
        BY <1>20, <2>2 DEF RolledBack, Working, Abort
    <2> QED
        BY <2>1, <2>2
<1>21. ASSUME Tidy PROVE Shape'
    BY <1>21 DEF Tidy
<1>22. ASSUME Recovered PROVE Shape'
    BY <1>22 DEF Recovered
<1>23. ASSUME RecoveryFails PROVE Shape'
    BY <1>23 DEF RecoveryFails
<1>24. ASSUME StartUp PROVE Shape'
    BY <1>24 DEF StartUp
<1>25. ASSUME NextJournal PROVE Shape'
    BY <1>25 DEF NextJournal
<1>26. ASSUME Crash PROVE Shape'
    BY <1>26 DEF Crash
<1>27. ASSUME NEW a \in Artifacts, NEW b \in Whole, Foreign(a, b) PROVE Shape'
    BY <1>27 DEF Foreign
<1>28. ASSUME Copy PROVE Shape'
    BY <1>28 DEF Copy
<1>29. ASSUME CopyFails PROVE Shape'
    BY <1>29 DEF CopyFails, Abort
<1> QED
    BY <1>0, <1>1, <1>2, <1>3, <1>4, <1>5, <1>6, <1>7, <1>8, <1>9, <1>10, <1>11, <1>12,
        <1>13, <1>14, <1>15, <1>16, <1>17, <1>18, <1>19, <1>20, <1>21, <1>22, <1>23, <1>24,
        <1>25, <1>26, <1>27, <1>28, <1>29 DEF Next, Publish, Recover

\* What nobody wrote since the last look is as the preview saw it, after every step.
LEMMA FreshStep ==
    ASSUME TypeOK, Shape, Fresh, [Next]_vars
    PROVE  Fresh'
<1> USE NoPlanIsPlan, PlanParts, FileParts DEF TypeOK, Shape, Fresh, Steps, Busy, AtFile,
        Resting, ActionOf
<1>0. CASE UNCHANGED vars
    BY <1>0 DEF vars
<1>1. ASSUME Preview PROVE Fresh'
    <2>1. PICK body \in [Artifacts -> Whole] :
            /\ preview' = [id |-> begun + 1, body |-> body,
                           orig |-> [a \in Artifacts |-> IF body[a] = None THEN None ELSE file[a]]]
            /\ unseen' = [a \in Artifacts |-> IF body[a] = None THEN unseen[a] ELSE None]
        BY <1>1 DEF Preview
    <2>2. \A a \in Selected(preview') : file[a] = preview'.orig[a] /\ unseen'[a] = None
        BY <2>1 DEF Selected
    <2> QED
        BY <1>1, <2>2 DEF Preview
<1>2. ASSUME Begin PROVE Fresh'
    BY <1>2 DEF Begin, Same
<1>3. ASSUME Check PROVE Fresh'
    BY <1>3 DEF Check, Same
<1>4. ASSUME PersistJournal PROVE Fresh'
    BY <1>4 DEF PersistJournal
<1>5. ASSUME PersistFails PROVE Fresh'
    BY <1>5 DEF PersistFails
<1>6. ASSUME NEW a \in Artifacts, Unchanged(a) PROVE Fresh'
    BY <1>6 DEF Unchanged, Working, Conflict, Abort, Discard
<1>7. ASSUME NEW a \in Artifacts, Create(a) PROVE Fresh'
    BY <1>7 DEF Create, Working, Conflict, Abort, Discard
<1>8. ASSUME NEW a \in Artifacts, Uncreate(a) PROVE Fresh'
    BY <1>8 DEF Uncreate, Working, Abort
<1>9. ASSUME NEW a \in Artifacts, Exchange(a) PROVE Fresh'
    BY <1>9 DEF Exchange, Working, Abort
<1>10. ASSUME NEW a \in Artifacts, Look(a) PROVE Fresh'
    BY <1>10 DEF Look, Working, Conflict, Abort, Discard
<1>11. ASSUME Accept PROVE Fresh'
    BY <1>11 DEF Accept
<1>12. ASSUME GiveBack PROVE Fresh'
    BY <1>12 DEF GiveBack, Conflict, Abort, Discard
<1>13. ASSUME GiveBackFails PROVE Fresh'
    BY <1>13 DEF GiveBackFails, Abort
<1>14. ASSUME Replace PROVE Fresh'
    BY <1>14 DEF Replace
<1>15. ASSUME Verify PROVE Fresh'
    BY <1>15 DEF Verify, Abort
<1>16. ASSUME Fails PROVE Fresh'
    BY <1>16 DEF Fails, Abort
<1>17. ASSUME Record PROVE Fresh'
    BY <1>17 DEF Record, Working
<1>18. ASSUME RemoveJournal PROVE Fresh'
    BY <1>18 DEF RemoveJournal
<1>19. ASSUME Preflight PROVE Fresh'
    BY <1>19 DEF Preflight
<1>20. ASSUME RolledBack PROVE Fresh'
    BY <1>20 DEF RolledBack, Working, Abort
<1>21. ASSUME Tidy PROVE Fresh'
    BY <1>21 DEF Tidy
<1>22. ASSUME Recovered PROVE Fresh'
    BY <1>22 DEF Recovered
<1>23. ASSUME RecoveryFails PROVE Fresh'
    BY <1>23 DEF RecoveryFails
<1>24. ASSUME StartUp PROVE Fresh'
    BY <1>24 DEF StartUp
<1>25. ASSUME NextJournal PROVE Fresh'
    BY <1>25 DEF NextJournal
<1>26. ASSUME Crash PROVE Fresh'
    BY <1>26 DEF Crash
<1>27. ASSUME NEW a \in Artifacts, NEW b \in Whole, Foreign(a, b) PROVE Fresh'
    BY <1>27 DEF Foreign
<1>28. ASSUME Copy PROVE Fresh'
    BY <1>28 DEF Copy
<1>29. ASSUME CopyFails PROVE Fresh'
    BY <1>29 DEF CopyFails, Abort
<1> QED
    BY <1>0, <1>1, <1>2, <1>3, <1>4, <1>5, <1>6, <1>7, <1>8, <1>9, <1>10, <1>11, <1>12,
        <1>13, <1>14, <1>15, <1>16, <1>17, <1>18, <1>19, <1>20, <1>21, <1>22, <1>23, <1>24,
        <1>25, <1>26, <1>27, <1>28, <1>29 DEF Next, Publish, Recover

\* A write that a recovery expects, or a copy begun, leaves the journal recoverable.
LEMMA WriteKeepsRecoverable ==
    ASSUME TypeOK, OneJournal, ~overlapped, now \in journals, \A p \in journals : Recoverable(p),
           NEW a \in Artifacts, NEW f,
           f \in Expected(now, a)
               \/ (now.id \notin recorded /\ ActionOf(now, a) = "create" /\ f = Partial),
           file' = [file EXCEPT ![a] = f], UNCHANGED <<journals, recorded>>
    PROVE  \A p \in journals : Recoverable(p)'
<1> SUFFICES ASSUME NEW p \in journals, NEW x \in Selected(p)
             PROVE  file'[x] \in Expected(p, x)' \/ CutShort(p, x)'
    BY DEF Recoverable
<1>1. p = now /\ x \in Artifacts
    BY DEF OneJournal, Selected
<1>2. Expected(p, x)' = Expected(p, x)
    BY DEF Expected, ActionOf
<1>3. CASE x = a
    BY <1>1, <1>2, <1>3 DEF TypeOK, CutShort
<1>4. CASE x # a
    <2>1. file'[x] = file[x]
        BY <1>1, <1>4 DEF TypeOK
    <2> QED
        BY <1>2, <2>1 DEF Recoverable, CutShort
<1> QED
    BY <1>3, <1>4

\* Who leaves the files and the journals alone keeps them recoverable.
LEMMA RestKeepsRecoverable ==
    ASSUME \A p \in journals : Recoverable(p), UNCHANGED <<file, recorded>>,
           journals' \subseteq journals
    PROVE  \A p \in journals' : Recoverable(p)'
BY DEF Recoverable, CutShort, Expected, ActionOf

\* So does a step that goes elsewhere.
LEMMA RestKeepsRestorable ==
    ASSUME Restorable, UNCHANGED <<file, recorded, touched, overlapped>>,
           journals' \subseteq journals, AsPreviewed',
           Untouched' => HeldIsKnown' /\ DoneIsWritten'
    PROVE  Restorable'
<1>1. OneJournal'
    BY DEF Restorable, OneJournal
<1>2. Untouched' => \A p \in journals' : Recoverable(p)'
    BY RestKeepsRecoverable DEF Restorable, Untouched
<1> QED
    BY <1>1, <1>2 DEF Restorable

\* Every step, of a publication or of a recovery, leaves the one journal restorable.
LEMMA RestorableStep ==
    ASSUME TypeOK, Shape, Fresh, Restorable, [Next]_vars
    PROVE  Restorable'
<1> USE NoPlanIsPlan, PlanParts, FileParts DEF TypeOK, Shape, Fresh, Restorable, Untouched,
        Recoverable, CutShort, Steps, Busy, AtFile, Resting
<1>0. CASE UNCHANGED vars
    <2>1. /\ UNCHANGED <<file, recorded, touched, overlapped>> /\ journals' \subseteq journals
          /\ AsPreviewed'
        BY <1>0 DEF vars, AsPreviewed
    <2>2. Untouched' => HeldIsKnown' /\ DoneIsWritten'
        BY <1>0 DEF vars, HeldIsKnown, DoneIsWritten
    <2> QED
        BY <2>1, <2>2, RestKeepsRestorable
<1>1. ASSUME Preview PROVE Restorable'
    <2>1. /\ UNCHANGED <<file, recorded, touched, overlapped>> /\ journals' \subseteq journals
          /\ AsPreviewed'
        BY <1>1 DEF Preview, AsPreviewed
    <2>2. Untouched' => HeldIsKnown' /\ DoneIsWritten'
        BY <1>1 DEF Preview, HeldIsKnown, DoneIsWritten
    <2> QED
        BY <2>1, <2>2, RestKeepsRestorable
<1>2. ASSUME Begin PROVE Restorable'
    <2>1. OneJournal' /\ AsPreviewed'
        BY <1>2 DEF Begin, Same, OneJournal, AsPreviewed
    <2>2. ASSUME Untouched' PROVE \A p \in journals' : Recoverable(p)'
        <3>1. ~touched \/ journals = {}
            BY <1>2, <2>2 DEF Begin
        <3>2. UNCHANGED <<file, recorded, journals, overlapped>>
            BY <1>2 DEF Begin
        <3> QED
            BY <2>2, <3>1, <3>2, RestKeepsRecoverable
    <2>3. ASSUME Untouched' PROVE HeldIsKnown'
        BY <1>2, <2>3 DEF Begin, Same, HeldIsKnown, Expected, ActionOf
    <2>4. ASSUME Untouched' PROVE DoneIsWritten'
        BY <1>2, <2>4 DEF Begin, Same, DoneIsWritten, Expected, ActionOf
    <2> QED
        BY <2>1, <2>2, <2>3, <2>4 DEF Restorable
<1>3. ASSUME Check PROVE Restorable'
    <2>1. /\ UNCHANGED <<file, recorded, touched, overlapped>> /\ journals' \subseteq journals
          /\ AsPreviewed'
        BY <1>3 DEF Check, Same, AsPreviewed
    <2>2. Untouched' => HeldIsKnown' /\ DoneIsWritten'
        BY <1>3 DEF Check, Same, HeldIsKnown, DoneIsWritten
    <2> QED
        BY <2>1, <2>2, RestKeepsRestorable
<1>4. ASSUME PersistJournal PROVE Restorable'
    BY <1>4 DEF PersistJournal, OneJournal, AsPreviewed, HeldIsKnown, DoneIsWritten, Expected,
        ActionOf
<1>5. ASSUME PersistFails PROVE Restorable'
    <2>1. OneJournal' /\ AsPreviewed'
        BY <1>5 DEF PersistFails, OneJournal, AsPreviewed
    <2>2. ASSUME Untouched' PROVE \A p \in journals' : Recoverable(p)'
        <3>1. UNCHANGED <<file, recorded, touched>> /\ ~touched
            BY <1>5, <2>2 DEF PersistFails
        <3>2. CASE journals' = journals
            BY <1>5, <2>2, <3>1, <3>2, RestKeepsRecoverable DEF PersistFails
        <3>3. CASE journals' # journals
            <4>1. pc = "journaling" /\ journals = {} /\ journals' = {now}
                BY <1>5, <2>2, <3>3 DEF PersistFails
            <4>2. \A a \in Selected(now) : file[a] = now.orig[a] /\ now.id \notin recorded
                BY <3>1, <4>1 DEF AsPreviewed
            <4> QED
                BY <3>1, <4>1, <4>2 DEF Expected, ActionOf
        <3> QED
            BY <3>2, <3>3
    <2>3. ASSUME Untouched' PROVE HeldIsKnown'
        BY <1>5, <2>3 DEF PersistFails, HeldIsKnown, Expected, ActionOf
    <2>4. ASSUME Untouched' PROVE DoneIsWritten'
        BY <1>5, <2>4 DEF PersistFails, DoneIsWritten, Expected, ActionOf
    <2> QED
        BY <2>1, <2>2, <2>3, <2>4 DEF Restorable
<1>6. ASSUME NEW a \in Artifacts, Unchanged(a) PROVE Restorable'
    <2>1. OneJournal' /\ AsPreviewed'
        BY <1>6 DEF Unchanged, Left, Working, ActionOf, Conflict, Abort, Discard, OneJournal,
            AsPreviewed
    <2>2. ASSUME Untouched' PROVE \A p \in journals' : Recoverable(p)'
        BY <1>6, <2>2 DEF Unchanged, Left, Working, ActionOf, Conflict, Abort, Discard, Expected
    <2>3. ASSUME Untouched' PROVE HeldIsKnown'
        BY <1>6, <2>3 DEF Unchanged, Left, Working, ActionOf, Conflict, Abort, Discard,
            HeldIsKnown, Expected
    <2>4. ASSUME Untouched' PROVE DoneIsWritten'
        BY <1>6, <2>4 DEF Unchanged, Left, Working, ActionOf, Conflict, Abort, Discard,
            DoneIsWritten, Expected
    <2> QED
        BY <2>1, <2>2, <2>3, <2>4 DEF Restorable
<1>7. ASSUME NEW a \in Artifacts, Create(a) PROVE Restorable'
    <2>1. OneJournal' /\ AsPreviewed'
        BY <1>7 DEF Create, Left, Working, ActionOf, Conflict, Abort, Discard, OneJournal,
            AsPreviewed
    <2>2. ASSUME Untouched' PROVE \A p \in journals' : Recoverable(p)'
        <3>1. ~touched /\ ~overlapped /\ UNCHANGED <<journals, recorded>>
            BY <1>7, <2>2 DEF Create
        <3>2. CASE file[a] = None
            <4>1. /\ now.body[a] \in Expected(now, a) /\ now \in journals
                  /\ now.id \notin recorded /\ ActionOf(now, a) = "create"
                BY <1>7 DEF Create, Working, Expected
            <4>2. PICK f \in {now.body[a], Partial} : file' = [file EXCEPT ![a] = f]
                BY <1>7, <3>2 DEF Create
            <4>3. f \in Expected(now, a)
                      \/ (now.id \notin recorded /\ ActionOf(now, a) = "create" /\ f = Partial)
                BY <4>1, <4>2
            <4> HIDE DEF Recoverable
            <4> QED
                BY <2>2, <3>1, <4>1, <4>2, <4>3, WriteKeepsRecoverable
        <3>3. CASE file[a] # None
            BY <1>7, <3>1, <3>3, RestKeepsRecoverable DEF Create
        <3> QED
            BY <3>2, <3>3
    <2>3. ASSUME Untouched' PROVE HeldIsKnown'
        BY <1>7, <2>3 DEF Create, Left, Working, ActionOf, Conflict, Abort, Discard,
            HeldIsKnown, Expected
    <2>4. ASSUME Untouched' PROVE DoneIsWritten'
        BY <1>7, <2>4 DEF Create, Left, Working, ActionOf, Conflict, Abort, Discard,
            DoneIsWritten, Expected
    <2> QED
        BY <2>1, <2>2, <2>3, <2>4 DEF Restorable
<1>8. ASSUME NEW a \in Artifacts, Uncreate(a) PROVE Restorable'
    <2>1. OneJournal' /\ AsPreviewed'
        BY <1>8 DEF Uncreate, Left, Working, ActionOf, Abort, OneJournal, AsPreviewed
    <2>2. ASSUME Untouched' PROVE \A p \in journals' : Recoverable(p)'
        <3>1. ~touched /\ ~overlapped /\ UNCHANGED <<journals, recorded>>
            BY <1>8, <2>2 DEF Uncreate
        <3>2. CASE a \notin stale
            <4>1. None \in Expected(now, a) /\ now \in journals
                BY <1>8 DEF Uncreate, Working, Expected
            <4> QED
                BY <1>8, <3>1, <3>2, <4>1, WriteKeepsRecoverable DEF Uncreate
        <3>3. CASE a \in stale
            BY <1>8, <3>1, <3>3, RestKeepsRecoverable DEF Uncreate
        <3> QED
            BY <3>2, <3>3
    <2>3. ASSUME Untouched' PROVE HeldIsKnown'
        BY <1>8, <2>3 DEF Uncreate, Left, Working, ActionOf, Abort, HeldIsKnown, Expected
    <2>4. ASSUME Untouched' PROVE DoneIsWritten'
        BY <1>8, <2>4 DEF Uncreate, Left, Working, ActionOf, Abort, DoneIsWritten, Expected
    <2> QED
        BY <2>1, <2>2, <2>3, <2>4 DEF Restorable
<1>9. ASSUME NEW a \in Artifacts, Exchange(a) PROVE Restorable'
    <2>1. OneJournal' /\ AsPreviewed'
        BY <1>9 DEF Exchange, Left, Working, ActionOf, NewBody, Abort, OneJournal, AsPreviewed
    <2>2. ASSUME Untouched' PROVE \A p \in journals' : Recoverable(p)'
        <3>1. ~touched /\ ~overlapped /\ UNCHANGED <<journals, recorded>>
            BY <1>9, <2>2 DEF Exchange
        <3>2. CASE file[a] = None
            BY <1>9, <3>1, <3>2, RestKeepsRecoverable DEF Exchange
        <3>3. CASE file[a] # None
            <4>1. NewBody(a) \in Expected(now, a) /\ now \in journals
                BY <1>9 DEF Exchange, Working, Expected, NewBody
            <4> QED
                BY <1>9, <3>1, <3>3, <4>1, WriteKeepsRecoverable DEF Exchange
        <3> QED
            BY <3>2, <3>3
    <2>3. ASSUME Untouched' PROVE HeldIsKnown'
        <3>1. ~touched /\ ~overlapped /\ now \in journals /\ a \in Selected(now)
            BY <1>9, <2>3 DEF Exchange, Working, Left
        <3>2. file[a] \in {now.orig[a], now.body[a]}
            <4>1. ActionOf(now, a) = "replace" /\ now.id \notin recorded
                BY <1>9 DEF Exchange, Working
            <4>2. file[a] \in Expected(now, a)
                BY <3>1, <4>1
            <4> QED
                BY <4>1, <4>2 DEF Expected
        <3>3. CASE file[a] = None
            BY <1>9, <3>3 DEF Exchange, Abort, HeldIsKnown
        <3>4. CASE file[a] # None
            BY <1>9, <3>2, <3>4 DEF Exchange, HeldIsKnown
        <3> QED
            BY <3>3, <3>4
    <2>4. ASSUME Untouched' PROVE DoneIsWritten'
        BY <1>9, <2>4 DEF Exchange, Left, Working, ActionOf, NewBody, Abort, DoneIsWritten,
            Expected
    <2> QED
        BY <2>1, <2>2, <2>3, <2>4 DEF Restorable
<1>10. ASSUME NEW a \in Artifacts, Look(a) PROVE Restorable'
    <2>1. /\ UNCHANGED <<file, recorded, touched, overlapped>> /\ journals' \subseteq journals
          /\ AsPreviewed'
        BY <1>10 DEF Look, Left, Working, Conflict, Abort, Discard, AsPreviewed
    <2>2. Untouched' => HeldIsKnown' /\ DoneIsWritten'
        BY <1>10 DEF Look, Left, Working, Conflict, Abort, Discard, HeldIsKnown, DoneIsWritten
    <2> QED
        BY <2>1, <2>2, RestKeepsRestorable
<1>11. ASSUME Accept PROVE Restorable'
    <2>1. /\ UNCHANGED <<file, recorded, touched, overlapped>> /\ journals' \subseteq journals
          /\ AsPreviewed'
        BY <1>11 DEF Accept, AsPreviewed
    <2>2. Untouched' => HeldIsKnown' /\ DoneIsWritten'
        BY <1>11 DEF Accept, HeldIsKnown, DoneIsWritten
    <2> QED
        BY <2>1, <2>2, RestKeepsRestorable
<1>12. ASSUME GiveBack PROVE Restorable'
    <2>1. OneJournal' /\ AsPreviewed'
        BY <1>12 DEF GiveBack, Conflict, Abort, Discard, OneJournal, AsPreviewed
    <2>2. ASSUME Untouched' PROVE \A p \in journals' : Recoverable(p)'
        <3>1. ~touched /\ ~overlapped /\ UNCHANGED <<journals, recorded>>
            BY <1>12, <2>2 DEF GiveBack
        <3>2. CASE at \in stale
            BY <1>12, <3>1, <3>2, RestKeepsRecoverable DEF GiveBack
        <3>3. CASE at \notin stale
            <4>1. held \in Expected(now, at) /\ now \in journals /\ at \in Artifacts
                BY <1>12, <3>1 DEF GiveBack, Expected, HeldIsKnown
            <4> QED
                BY <1>12, <3>1, <3>3, <4>1, WriteKeepsRecoverable DEF GiveBack
        <3> QED
            BY <3>2, <3>3
    <2>3. ASSUME Untouched' PROVE HeldIsKnown'
        BY <1>12, <2>3 DEF GiveBack, Conflict, Abort, Discard, HeldIsKnown, Expected,
            ActionOf
    <2>4. ASSUME Untouched' PROVE DoneIsWritten'
        BY <1>12, <2>4 DEF GiveBack, Conflict, Abort, Discard, DoneIsWritten, Expected,
            ActionOf
    <2> QED
        BY <2>1, <2>2, <2>3, <2>4 DEF Restorable
<1>13. ASSUME GiveBackFails PROVE Restorable'
    <2>1. /\ UNCHANGED <<file, recorded, touched, overlapped>> /\ journals' \subseteq journals
          /\ AsPreviewed'
        BY <1>13 DEF GiveBackFails, Abort, AsPreviewed
    <2>2. Untouched' => HeldIsKnown' /\ DoneIsWritten'
        BY <1>13 DEF GiveBackFails, Abort, HeldIsKnown, DoneIsWritten
    <2> QED
        BY <2>1, <2>2, RestKeepsRestorable
<1>14. ASSUME Replace PROVE Restorable'
    <2>1. OneJournal' /\ AsPreviewed'
        BY <1>14 DEF Replace, NewBody, OneJournal, AsPreviewed
    <2>2. ASSUME Untouched' PROVE \A p \in journals' : Recoverable(p)'
        <3>1. ~touched /\ ~overlapped /\ UNCHANGED <<journals, recorded>>
            BY <1>14, <2>2 DEF Replace
        <3>2. NewBody(at) \in Expected(now, at) /\ now \in journals /\ at \in Artifacts
            BY <1>14 DEF Replace, Expected, NewBody
        <3> QED
            BY <1>14, <3>1, <3>2, WriteKeepsRecoverable DEF Replace
    <2>3. ASSUME Untouched' PROVE HeldIsKnown'
        BY <1>14, <2>3 DEF Replace, NewBody, HeldIsKnown, Expected, ActionOf
    <2>4. ASSUME Untouched' PROVE DoneIsWritten'
        BY <1>14, <2>4 DEF Replace, NewBody, DoneIsWritten, Expected, ActionOf
    <2> QED
        BY <2>1, <2>2, <2>3, <2>4 DEF Restorable
<1>15. ASSUME Verify PROVE Restorable'
    <2>1. OneJournal' /\ AsPreviewed'
        BY <1>15 DEF Verify, NewBody, Abort, OneJournal, AsPreviewed
    <2>2. ASSUME Untouched' PROVE \A p \in journals' : Recoverable(p)'
        BY <1>15, <2>2 DEF Verify, NewBody, Abort, Expected, ActionOf
    <2>3. ASSUME Untouched' PROVE HeldIsKnown'
        BY <1>15, <2>3 DEF Verify, NewBody, Abort, HeldIsKnown, Expected, ActionOf
    <2>4. ASSUME Untouched' PROVE DoneIsWritten'
        BY <1>15, <2>4 DEF Verify, NewBody, Abort, DoneIsWritten, Expected, ActionOf
    <2> QED
        BY <2>1, <2>2, <2>3, <2>4 DEF Restorable
<1>16. ASSUME Fails PROVE Restorable'
    <2>1. /\ UNCHANGED <<file, recorded, touched, overlapped>> /\ journals' \subseteq journals
          /\ AsPreviewed'
        BY <1>16 DEF Fails, Abort, AsPreviewed
    <2>2. Untouched' => HeldIsKnown' /\ DoneIsWritten'
        BY <1>16 DEF Fails, Abort, HeldIsKnown, DoneIsWritten
    <2> QED
        BY <2>1, <2>2, RestKeepsRestorable
<1>17. ASSUME Record PROVE Restorable'
    BY <1>17 DEF Record, Left, Working, OneJournal, AsPreviewed, HeldIsKnown,
        DoneIsWritten, Expected, ActionOf
<1>18. ASSUME RemoveJournal PROVE Restorable'
    <2>1. /\ UNCHANGED <<file, recorded, touched, overlapped>> /\ journals' \subseteq journals
          /\ AsPreviewed'
        BY <1>18 DEF RemoveJournal, AsPreviewed
    <2>2. Untouched' => HeldIsKnown' /\ DoneIsWritten'
        BY <1>18 DEF RemoveJournal, HeldIsKnown, DoneIsWritten
    <2> QED
        BY <2>1, <2>2, RestKeepsRestorable
<1>19. ASSUME Preflight PROVE Restorable'
    <2>1. /\ UNCHANGED <<file, recorded, touched, overlapped>> /\ journals' \subseteq journals
          /\ AsPreviewed'
        BY <1>19 DEF Preflight, AsPreviewed
    <2>2. Untouched' => HeldIsKnown' /\ DoneIsWritten'
        BY <1>19 DEF Preflight, HeldIsKnown, DoneIsWritten
    <2> QED
        BY <2>1, <2>2, RestKeepsRestorable
<1>20. ASSUME RolledBack PROVE Restorable'
    BY <1>20 DEF RolledBack, Left, Working, Abort, OneJournal, AsPreviewed, HeldIsKnown,
        DoneIsWritten, Expected, ActionOf
<1>21. ASSUME Tidy PROVE Restorable'
    <2>1. /\ UNCHANGED <<file, recorded, touched, overlapped>> /\ journals' \subseteq journals
          /\ AsPreviewed'
        BY <1>21 DEF Tidy, AsPreviewed
    <2>2. Untouched' => HeldIsKnown' /\ DoneIsWritten'
        BY <1>21 DEF Tidy, HeldIsKnown, DoneIsWritten
    <2> QED
        BY <2>1, <2>2, RestKeepsRestorable
<1>22. ASSUME Recovered PROVE Restorable'
    <2>1. /\ UNCHANGED <<file, recorded, touched, overlapped>> /\ journals' \subseteq journals
          /\ AsPreviewed'
        BY <1>22 DEF Recovered, AsPreviewed
    <2>2. Untouched' => HeldIsKnown' /\ DoneIsWritten'
        BY <1>22 DEF Recovered, HeldIsKnown, DoneIsWritten
    <2> QED
        BY <2>1, <2>2, RestKeepsRestorable
<1>23. ASSUME RecoveryFails PROVE Restorable'
    <2>1. /\ UNCHANGED <<file, recorded, touched, overlapped>> /\ journals' \subseteq journals
          /\ AsPreviewed'
        BY <1>23 DEF RecoveryFails, AsPreviewed
    <2>2. Untouched' => HeldIsKnown' /\ DoneIsWritten'
        BY <1>23 DEF RecoveryFails, HeldIsKnown, DoneIsWritten
    <2> QED
        BY <2>1, <2>2, RestKeepsRestorable
<1>24. ASSUME StartUp PROVE Restorable'
    <2>1. /\ UNCHANGED <<file, recorded, touched, overlapped>> /\ journals' \subseteq journals
          /\ AsPreviewed'
        BY <1>24 DEF StartUp, AsPreviewed
    <2>2. Untouched' => HeldIsKnown' /\ DoneIsWritten'
        BY <1>24 DEF StartUp, HeldIsKnown, DoneIsWritten
    <2> QED
        BY <2>1, <2>2, RestKeepsRestorable
<1>25. ASSUME NextJournal PROVE Restorable'
    <2>1. /\ UNCHANGED <<file, recorded, touched, overlapped>> /\ journals' \subseteq journals
          /\ AsPreviewed'
        BY <1>25 DEF NextJournal, AsPreviewed
    <2>2. Untouched' => HeldIsKnown' /\ DoneIsWritten'
        BY <1>25 DEF NextJournal, HeldIsKnown, DoneIsWritten
    <2> QED
        BY <2>1, <2>2, RestKeepsRestorable
<1>26. ASSUME Crash PROVE Restorable'
    <2>1. /\ UNCHANGED <<file, recorded, touched, overlapped>> /\ journals' \subseteq journals
          /\ AsPreviewed'
        BY <1>26 DEF Crash, AsPreviewed
    <2>2. Untouched' => HeldIsKnown' /\ DoneIsWritten'
        BY <1>26 DEF Crash, HeldIsKnown, DoneIsWritten
    <2> QED
        BY <2>1, <2>2, RestKeepsRestorable
<1>27. ASSUME NEW a \in Artifacts, NEW b \in Whole, Foreign(a, b) PROVE Restorable'
    <2>1. OneJournal' /\ AsPreviewed'
        BY <1>27 DEF Foreign, OneJournal, AsPreviewed
    <2>2. ASSUME Untouched' PROVE \A p \in journals' : Recoverable(p)'
        <3>1. ~touched /\ ~overlapped /\ UNCHANGED <<journals, recorded>>
            BY <1>27, <2>2 DEF Foreign
        <3>2. \A p \in journals : a \notin Selected(p)
            BY <1>27, <2>2 DEF Foreign
        <3>3. \A p \in journals : \A x \in Selected(p) : file'[x] = file[x]
            BY <1>27, <3>2 DEF Foreign
        <3>4. \A p \in journals : \A x \in Selected(p) : Expected(p, x)' = Expected(p, x)
            BY <3>1 DEF Expected, ActionOf
        <3> QED
            BY <3>1, <3>3, <3>4 DEF CutShort
    <2>3. ASSUME Untouched' PROVE HeldIsKnown'
        BY <1>27, <2>3 DEF Foreign, HeldIsKnown, Expected, ActionOf
    <2>4. ASSUME Untouched' PROVE DoneIsWritten'
        BY <1>27, <2>4 DEF Foreign, DoneIsWritten, Expected, ActionOf
    <2> QED
        BY <2>1, <2>2, <2>3, <2>4 DEF Restorable
<1>28. ASSUME Copy PROVE Restorable'
    <2>1. OneJournal' /\ AsPreviewed'
        BY <1>28 DEF Copy, OneJournal, AsPreviewed
    <2>2. ASSUME Untouched' PROVE \A p \in journals' : Recoverable(p)'
        <3>1. ~touched /\ ~overlapped /\ UNCHANGED <<journals, recorded>>
            BY <1>28, <2>2 DEF Copy
        <3>2. CASE at \notin stale
            <4>1. now.body[at] \in Expected(now, at) /\ now \in journals /\ at \in Artifacts
                BY <1>28 DEF Copy, Expected
            <4> QED
                BY <1>28, <3>1, <3>2, <4>1, WriteKeepsRecoverable DEF Copy
        <3>3. CASE at \in stale
            BY <1>28, <3>1, <3>3, RestKeepsRecoverable DEF Copy
        <3> QED
            BY <3>2, <3>3
    <2>3. ASSUME Untouched' PROVE HeldIsKnown'
        BY <1>28, <2>3 DEF Copy, HeldIsKnown
    <2>4. ASSUME Untouched' PROVE DoneIsWritten'
        BY <1>28, <2>4 DEF Copy, DoneIsWritten
    <2> QED
        BY <2>1, <2>2, <2>3, <2>4 DEF Restorable
<1>29. ASSUME CopyFails PROVE Restorable'
    <2>1. OneJournal' /\ AsPreviewed'
        BY <1>29 DEF CopyFails, Abort, OneJournal, AsPreviewed
    <2>2. ASSUME Untouched' PROVE \A p \in journals' : Recoverable(p)'
        <3>1. ~touched /\ ~overlapped /\ UNCHANGED <<journals, recorded>>
            BY <1>29, <2>2 DEF CopyFails
        <3>2. CASE file' = [file EXCEPT ![at] = None]
            <4>1. None \in Expected(now, at) /\ now \in journals /\ at \in Artifacts
                BY <1>29 DEF CopyFails, Expected
            <4> QED
                BY <1>29, <3>1, <3>2, <4>1, WriteKeepsRecoverable DEF CopyFails
        <3>3. CASE file' = file
            BY <1>29, <3>1, <3>3, RestKeepsRecoverable DEF CopyFails
        <3> QED
            BY <1>29, <3>2, <3>3 DEF CopyFails
    <2>3. ASSUME Untouched' PROVE HeldIsKnown'
        BY <1>29, <2>3 DEF CopyFails, Abort, HeldIsKnown
    <2>4. ASSUME Untouched' PROVE DoneIsWritten'
        BY <1>29, <2>4 DEF CopyFails, Abort, DoneIsWritten
    <2> QED
        BY <2>1, <2>2, <2>3, <2>4 DEF Restorable
<1> QED
    BY <1>0, <1>1, <1>2, <1>3, <1>4, <1>5, <1>6, <1>7, <1>8, <1>9, <1>10, <1>11, <1>12,
        <1>13, <1>14, <1>15, <1>16, <1>17, <1>18, <1>19, <1>20, <1>21, <1>22, <1>23, <1>24,
        <1>25, <1>26, <1>27, <1>28, <1>29 DEF Next, Publish, Recover

\* No step parts with what others wrote unseen.
LEMMA AttributedStep ==
    ASSUME TypeOK, Shape, Fresh, Attributed, [Next]_vars
    PROVE  Attributed'
<1> USE NoPlanIsPlan, PlanParts, FileParts DEF TypeOK, Shape, Fresh, Attributed, Steps,
        Busy, AtFile, Resting
<1>0. CASE UNCHANGED vars
    BY <1>0 DEF vars, Left, ThereOrHeld, NeverProposed, LeftIsSeen
<1>1. ASSUME Preview PROVE Attributed'
    BY <1>1 DEF Preview, Left, ActionOf, ThereOrHeld, NeverProposed, LeftIsSeen
<1>2. ASSUME Begin PROVE Attributed'
    BY <1>2 DEF Begin, Same, Left, ActionOf, ThereOrHeld, NeverProposed, LeftIsSeen
<1>3. ASSUME Check PROVE Attributed'
    BY <1>3 DEF Check, Same, Left, ActionOf, ThereOrHeld, NeverProposed, LeftIsSeen
<1>4. ASSUME PersistJournal PROVE Attributed'
    BY <1>4 DEF PersistJournal, Left, ActionOf, ThereOrHeld, NeverProposed, LeftIsSeen
<1>5. ASSUME PersistFails PROVE Attributed'
    BY <1>5 DEF PersistFails, Left, ActionOf, ThereOrHeld, NeverProposed, LeftIsSeen
<1>6. ASSUME NEW a \in Artifacts, Unchanged(a) PROVE Attributed'
    BY <1>6 DEF Unchanged, Left, Working, ActionOf, Conflict, Abort, Discard, ThereOrHeld,
        NeverProposed, LeftIsSeen
<1>7. ASSUME NEW a \in Artifacts, Create(a) PROVE Attributed'
    BY <1>7 DEF Create, Left, Working, ActionOf, Conflict, Abort, Discard, ThereOrHeld,
        NeverProposed, LeftIsSeen
<1>8. ASSUME NEW a \in Artifacts, Uncreate(a) PROVE Attributed'
    <2>1. CASE a \in stale
        BY <1>8, <2>1 DEF Uncreate, Abort, Working, ThereOrHeld, NeverProposed, LeftIsSeen
    <2>2. CASE a \notin stale
        <3>1. unnoticed \/ unseen[a] = None
            BY <1>8, <2>2 DEF Uncreate, Working, LeftIsSeen, Left
        <3>2. /\ file' = [file EXCEPT ![a] = None] /\ done' = done \cup {a} /\ pc = "publishing"
              /\ UNCHANGED <<pc, now, at, held, matches, unseen, unnoticed, stale, journals>>
            BY <1>8, <2>2 DEF Uncreate, Working
        <3> QED
            BY <3>1, <3>2 DEF ThereOrHeld, NeverProposed, LeftIsSeen, Left
    <2> QED
        BY <2>1, <2>2
<1>9. ASSUME NEW a \in Artifacts, Exchange(a) PROVE Attributed'
    BY <1>9 DEF Exchange, Left, Working, ActionOf, NewBody, Abort, ThereOrHeld,
        NeverProposed, LeftIsSeen
<1>10. ASSUME NEW a \in Artifacts, Look(a) PROVE Attributed'
    BY <1>10 DEF Look, Left, Working, ActionOf, Conflict, Abort, Discard, ThereOrHeld,
        NeverProposed, LeftIsSeen
<1>11. ASSUME Accept PROVE Attributed'
    BY <1>11 DEF Accept, Left, ActionOf, ThereOrHeld, NeverProposed, LeftIsSeen
<1>12. ASSUME GiveBack PROVE Attributed'
    BY <1>12 DEF GiveBack, Conflict, Abort, Discard, Left, ActionOf, ThereOrHeld,
        NeverProposed, LeftIsSeen
<1>13. ASSUME GiveBackFails PROVE Attributed'
    BY <1>13 DEF GiveBackFails, Abort, Left, ActionOf, ThereOrHeld, NeverProposed,
        LeftIsSeen
<1>14. ASSUME Replace PROVE Attributed'
    BY <1>14 DEF Replace, NewBody, Left, ActionOf, ThereOrHeld, NeverProposed, LeftIsSeen
<1>15. ASSUME Verify PROVE Attributed'
    BY <1>15 DEF Verify, NewBody, Abort, Left, ActionOf, ThereOrHeld, NeverProposed,
        LeftIsSeen
<1>16. ASSUME Fails PROVE Attributed'
    BY <1>16 DEF Fails, Abort, Left, ActionOf, ThereOrHeld, NeverProposed, LeftIsSeen
<1>17. ASSUME Record PROVE Attributed'
    BY <1>17 DEF Record, Left, Working, ActionOf, ThereOrHeld, NeverProposed, LeftIsSeen
<1>18. ASSUME RemoveJournal PROVE Attributed'
    BY <1>18 DEF RemoveJournal, Left, ActionOf, ThereOrHeld, NeverProposed, LeftIsSeen
<1>19. ASSUME Preflight PROVE Attributed'
    <2>1. UNCHANGED <<file, journals, unseen, unnoticed>> /\ pc = "preflight" /\ now \in journals
        BY <1>19 DEF Preflight
    <2>2. CASE ~Valid(now) \/ now.id \in recorded
        BY <1>19, <2>1, <2>2 DEF Preflight, ThereOrHeld, NeverProposed, LeftIsSeen
    <2>3. CASE Valid(now) /\ now.id \notin recorded
        <3>1. /\ pc' = "publishing" /\ now' = now
              /\ done' = {a \in Artifacts : file[a] = now.orig[a]}
            BY <1>19, <2>3 DEF Preflight
        <3>2. \A a \in Selected(now) : file[a] # now.orig[a] => file[a] = now.body[a]
            BY <2>3 DEF Valid, Expected, ActionOf
        <3>3. ASSUME ~unnoticed, NEW a \in Selected(now), file[a] # now.orig[a]
              PROVE  unseen[a] = None
            BY <2>1, <3>2, <3>3 DEF ThereOrHeld, NeverProposed
        <3>4. ~unnoticed => LeftIsSeen'
            BY <2>1, <3>1, <3>3 DEF LeftIsSeen, Left
        <3>5. ~unnoticed => ThereOrHeld' /\ NeverProposed'
            BY <2>1, <3>1 DEF ThereOrHeld, NeverProposed
        <3> QED
            BY <2>1, <3>4, <3>5
    <2> QED
        BY <2>2, <2>3
<1>20. ASSUME RolledBack PROVE Attributed'
    BY <1>20 DEF RolledBack, Left, Working, Abort, ActionOf, ThereOrHeld, NeverProposed,
        LeftIsSeen
<1>21. ASSUME Tidy PROVE Attributed'
    BY <1>21 DEF Tidy, Left, ActionOf, ThereOrHeld, NeverProposed, LeftIsSeen
<1>22. ASSUME Recovered PROVE Attributed'
    BY <1>22 DEF Recovered, Left, ActionOf, ThereOrHeld, NeverProposed, LeftIsSeen
<1>23. ASSUME RecoveryFails PROVE Attributed'
    BY <1>23 DEF RecoveryFails, Left, ActionOf, ThereOrHeld, NeverProposed, LeftIsSeen
<1>24. ASSUME StartUp PROVE Attributed'
    BY <1>24 DEF StartUp, Left, ActionOf, ThereOrHeld, NeverProposed, LeftIsSeen
<1>25. ASSUME NextJournal PROVE Attributed'
    BY <1>25 DEF NextJournal, Left, ActionOf, ThereOrHeld, NeverProposed, LeftIsSeen
<1>26. ASSUME Crash PROVE Attributed'
    BY <1>26 DEF Crash, Left, ActionOf, ThereOrHeld, NeverProposed, LeftIsSeen
<1>27. ASSUME NEW a \in Artifacts, NEW b \in Whole, Foreign(a, b) PROVE Attributed'
    BY <1>27 DEF Foreign, Left, ActionOf, ThereOrHeld, NeverProposed, LeftIsSeen
<1>28. ASSUME Copy PROVE Attributed'
    <2>1. /\ at \in Artifacts /\ pc = "copying" /\ pc' = "verifying"
          /\ UNCHANGED <<now, at, done, unseen, unnoticed, stale, journals>>
          /\ \A a \in Artifacts \ {at} : file'[a] = file[a]
          /\ at \in stale => file'[at] = file[at]
        BY <1>28 DEF Copy
    <2>2. ~unnoticed /\ at \notin stale => unseen[at] = None
        BY <1>28, <2>1 DEF ThereOrHeld, Copy
    <2> QED
        BY <2>1, <2>2 DEF ThereOrHeld, NeverProposed, LeftIsSeen, Left
<1>29. ASSUME CopyFails PROVE Attributed'
    <2>1. /\ at \in Artifacts /\ pc = "copying" /\ pc' = "preflight"
          /\ UNCHANGED <<now, unseen, stale, journals>>
          /\ \A a \in Artifacts \ {at} : file'[a] = file[a]
          /\ file'[at] # file[at] => file'[at] = None
        BY <1>29 DEF CopyFails, Abort
    <2>2. ~unnoticed' => ~unnoticed
        BY <1>29 DEF CopyFails
    <2>3. ~unnoticed' /\ file'[at] # file[at] => unseen[at] = None
        BY <1>29, <2>1, <2>2 DEF CopyFails, ThereOrHeld
    <2> QED
        BY <2>1, <2>2, <2>3 DEF ThereOrHeld, NeverProposed, LeftIsSeen
<1> QED
    BY <1>0, <1>1, <1>2, <1>3, <1>4, <1>5, <1>6, <1>7, <1>8, <1>9, <1>10, <1>11, <1>12,
        <1>13, <1>14, <1>15, <1>16, <1>17, <1>18, <1>19, <1>20, <1>21, <1>22, <1>23, <1>24,
        <1>25, <1>26, <1>27, <1>28, <1>29 DEF Next, Publish, Recover

\* Every step, an error and a crash in the midst of the files included, keeps the account
\* of what each file is and what it is to be.
LEMMA AccountedStep ==
    ASSUME TypeOK, Shape, Fresh, OneJournal, Accounted, [Next]_vars
    PROVE  Accounted'
<1> USE NoPlanIsPlan, PlanParts, FileParts DEF TypeOK, Shape, Fresh, OneJournal, Accounted,
        Tracked, Steps, Busy, AtFile, Resting
<1>0. CASE UNCHANGED vars
    BY <1>0 DEF vars, Left, NewBody, ActionOf, OthersAreRight, PublishedIsRight,
        EndIsRight, ForwardIsRight, BackIsRight, CopyingIsRight, VerifyingIsRight, ExchangedIsRight
<1>1. ASSUME Preview PROVE Accounted'
    BY <1>1 DEF Preview, Left, ActionOf, NewBody, OthersAreRight, PublishedIsRight,
        EndIsRight, ForwardIsRight, BackIsRight, CopyingIsRight, VerifyingIsRight, ExchangedIsRight
<1>2. ASSUME Begin PROVE Accounted'
    BY <1>2 DEF Begin, Same, Left, ActionOf, NewBody, OthersAreRight, PublishedIsRight,
        EndIsRight, ForwardIsRight, BackIsRight, CopyingIsRight, VerifyingIsRight, ExchangedIsRight
<1>3. ASSUME Check PROVE Accounted'
    BY <1>3 DEF Check, Same, Left, ActionOf, NewBody, OthersAreRight, PublishedIsRight,
        EndIsRight, ForwardIsRight, BackIsRight, CopyingIsRight, VerifyingIsRight, ExchangedIsRight
<1>4. ASSUME PersistJournal PROVE Accounted'
    BY <1>4 DEF PersistJournal, Left, ActionOf, NewBody, OthersAreRight, PublishedIsRight,
        EndIsRight, ForwardIsRight, BackIsRight, CopyingIsRight, VerifyingIsRight, ExchangedIsRight
<1>5. ASSUME PersistFails PROVE Accounted'
    BY <1>5 DEF PersistFails, Left, ActionOf, NewBody, OthersAreRight, PublishedIsRight,
        EndIsRight, ForwardIsRight, BackIsRight, CopyingIsRight, VerifyingIsRight, ExchangedIsRight
<1>6. ASSUME NEW a \in Artifacts, Unchanged(a) PROVE Accounted'
    BY <1>6 DEF Unchanged, Left, Working, ActionOf, Conflict, Abort, Discard, NewBody,
        OthersAreRight, PublishedIsRight, EndIsRight, ForwardIsRight, BackIsRight,
        CopyingIsRight, VerifyingIsRight, ExchangedIsRight
<1>7. ASSUME NEW a \in Artifacts, Create(a) PROVE Accounted'
    <2>1. ASSUME Tracked' PROVE OthersAreRight'
        BY <1>7, <2>1 DEF Create, Left, Working, ActionOf, Conflict, Abort, Discard,
            OthersAreRight, NewBody
    <2>2. ASSUME Tracked' PROVE PublishedIsRight'
        BY <1>7, <2>2 DEF Create, Left, Working, ActionOf, Conflict, Abort, Discard,
            PublishedIsRight, NewBody
    <2>3. ASSUME Tracked' PROVE EndIsRight'
        <3>1. CASE file[a] = None
            BY <1>7, <2>3, <3>1 DEF Create, Working, EndIsRight
        <3>2. CASE file[a] # None
            BY <1>7, <2>3, <3>2 DEF Create, Working, Left, Conflict, Abort, Discard, ActionOf,
                ForwardIsRight, EndIsRight
        <3> QED
            BY <3>1, <3>2
    <2>4. ASSUME Tracked' PROVE ForwardIsRight'
        BY <1>7, <2>4 DEF Create, Left, Working, ActionOf, Conflict, Abort, Discard,
            ForwardIsRight, NewBody
    <2>5. ASSUME Tracked' PROVE BackIsRight'
        BY <1>7, <2>5 DEF Create, Left, Working, ActionOf, Conflict, Abort, Discard,
            BackIsRight, NewBody
    <2>6. ASSUME Tracked' PROVE VerifyingIsRight'
        <3>1. CASE file[a] = None
            BY <1>7, <2>6, <3>1 DEF Create, Working, Left, NewBody, ActionOf, ForwardIsRight,
                VerifyingIsRight
        <3>2. CASE file[a] # None
            BY <1>7, <2>6, <3>2 DEF Create, Working, Conflict, Abort, Discard, VerifyingIsRight
        <3> QED
            BY <3>1, <3>2
    <2>7. ASSUME Tracked' PROVE ExchangedIsRight'
        BY <1>7, <2>7 DEF Create, Left, Working, ActionOf, Conflict, Abort, Discard,
            ExchangedIsRight, NewBody
    <2>8. ASSUME Tracked' PROVE CopyingIsRight'
        BY <1>7, <2>8 DEF Create, Working, Left, ActionOf, Conflict, Abort, Discard,
            ForwardIsRight, CopyingIsRight
    <2> QED
        BY <2>1, <2>2, <2>3, <2>4, <2>5, <2>6, <2>7, <2>8 DEF Accounted
<1>8. ASSUME NEW a \in Artifacts, Uncreate(a) PROVE Accounted'
    <2>1. ASSUME Tracked' PROVE OthersAreRight'
        <3>1. CASE a \in stale
            BY <1>8, <2>1, <3>1 DEF Uncreate, OthersAreRight
        <3>2. CASE a \notin stale
            BY <1>8, <2>1, <3>2 DEF Uncreate, Working, Left, OthersAreRight
        <3> QED
            BY <3>1, <3>2
    <2>2. ASSUME Tracked' PROVE PublishedIsRight'
        <3>1. CASE a \in stale
            BY <1>8, <2>2, <3>1 DEF Uncreate, Working, Abort, PublishedIsRight
        <3>2. CASE a \notin stale
            BY <1>8, <2>2, <3>2 DEF Uncreate, Working, Left, ActionOf, BackIsRight,
                PublishedIsRight
        <3> QED
            BY <3>1, <3>2
    <2>3. ASSUME Tracked' PROVE EndIsRight'
        BY <1>8, <2>3 DEF Uncreate, Left, Working, ActionOf, Abort, EndIsRight, NewBody
    <2>4. ASSUME Tracked' PROVE ForwardIsRight'
        BY <1>8, <2>4 DEF Uncreate, Left, Working, ActionOf, Abort, ForwardIsRight, NewBody
    <2>5. ASSUME Tracked' PROVE BackIsRight'
        BY <1>8, <2>5 DEF Uncreate, Left, Working, ActionOf, Abort, BackIsRight, NewBody
    <2>6. ASSUME Tracked' PROVE VerifyingIsRight'
        BY <1>8, <2>6 DEF Uncreate, Left, Working, ActionOf, Abort, VerifyingIsRight, NewBody
    <2>7. ASSUME Tracked' PROVE ExchangedIsRight'
        BY <1>8, <2>7 DEF Uncreate, Left, Working, ActionOf, Abort, ExchangedIsRight, NewBody
    <2>8. ASSUME Tracked' PROVE CopyingIsRight'
        BY <1>8, <2>8 DEF Uncreate, Working, Left, ActionOf, Conflict, Abort, Discard,
            ForwardIsRight, CopyingIsRight
    <2> QED
        BY <2>1, <2>2, <2>3, <2>4, <2>5, <2>6, <2>7, <2>8 DEF Accounted
<1>9. ASSUME NEW a \in Artifacts, Exchange(a) PROVE Accounted'
    <2>1. ASSUME Tracked' PROVE OthersAreRight'
        BY <1>9, <2>1 DEF Exchange, Left, Working, ActionOf, NewBody, Abort, OthersAreRight
    <2>2. ASSUME Tracked' PROVE PublishedIsRight'
        <3>1. CASE file[a] = None
            BY <1>9, <2>2, <3>1 DEF Exchange, Working, Abort, PublishedIsRight
        <3>2. CASE file[a] # None
            BY <1>9, <2>2, <3>2 DEF Exchange, Working, Left, ActionOf, NewBody, ForwardIsRight,
                BackIsRight, PublishedIsRight
        <3> QED
            BY <3>1, <3>2
    <2>3. ASSUME Tracked' PROVE EndIsRight'
        BY <1>9, <2>3 DEF Exchange, Left, Working, ActionOf, NewBody, Abort, EndIsRight
    <2>4. ASSUME Tracked' PROVE ForwardIsRight'
        BY <1>9, <2>4 DEF Exchange, Left, Working, ActionOf, NewBody, Abort, ForwardIsRight
    <2>5. ASSUME Tracked' PROVE BackIsRight'
        <3>1. CASE file[a] = None
            BY <1>9, <2>5, <3>1 DEF Exchange, Working, Abort, BackIsRight
        <3>2. CASE file[a] # None
            <4>1. /\ at' = a /\ pc' = "exchanged"
                  /\ pc = "publishing" \/ (pc = "replacing" /\ at = a)
                  /\ UNCHANGED <<now, back, done, sees, overlapped, unnoticed>>
                  /\ \A x \in Artifacts \ {a} :
                         file'[x] = file[x] /\ (x \in stale' <=> x \in stale)
                BY <1>9, <3>2 DEF Exchange, Working
            <4> QED
                BY <2>5, <4>1 DEF BackIsRight, Left
        <3> QED
            BY <3>1, <3>2
    <2>6. ASSUME Tracked' PROVE VerifyingIsRight'
        BY <1>9, <2>6 DEF Exchange, Left, Working, ActionOf, NewBody, Abort, VerifyingIsRight
    <2>7. ASSUME Tracked' PROVE ExchangedIsRight'
        <3>1. CASE file[a] = None
            BY <1>9, <2>7, <3>1 DEF Exchange, Working, Abort, ExchangedIsRight
        <3>2. CASE file[a] # None
            BY <1>9, <2>7, <3>2 DEF Exchange, Working, Left, ActionOf, NewBody, ForwardIsRight,
                BackIsRight, ExchangedIsRight
        <3> QED
            BY <3>1, <3>2
    <2>8. ASSUME Tracked' PROVE CopyingIsRight'
        BY <1>9, <2>8 DEF Exchange, Working, Left, ActionOf, Conflict, Abort, Discard,
            ForwardIsRight, CopyingIsRight
    <2> QED
        BY <2>1, <2>2, <2>3, <2>4, <2>5, <2>6, <2>7, <2>8 DEF Accounted
<1>10. ASSUME NEW a \in Artifacts, Look(a) PROVE Accounted'
    BY <1>10 DEF Look, Left, Working, ActionOf, Conflict, Abort, Discard, NewBody,
        OthersAreRight, PublishedIsRight, EndIsRight, ForwardIsRight, BackIsRight,
        CopyingIsRight, VerifyingIsRight, ExchangedIsRight
<1>11. ASSUME Accept PROVE Accounted'
    BY <1>11 DEF Accept, Left, ActionOf, NewBody, OthersAreRight, PublishedIsRight,
        EndIsRight, ForwardIsRight, BackIsRight, CopyingIsRight, VerifyingIsRight, ExchangedIsRight
<1>12. ASSUME GiveBack PROVE Accounted'
    <2>1. ASSUME Tracked' PROVE OthersAreRight'
        BY <1>12, <2>1 DEF GiveBack, Conflict, Abort, Discard, OthersAreRight, ActionOf, Left,
            NewBody
    <2>2. ASSUME Tracked' PROVE PublishedIsRight'
        <3>1. CASE at \in stale
            BY <1>12, <2>2, <3>1 DEF GiveBack, Abort, PublishedIsRight
        <3>2. CASE at \notin stale
            BY <1>12, <2>2, <3>2 DEF GiveBack, Conflict, Abort, Discard, ActionOf,
                ExchangedIsRight, PublishedIsRight
        <3> QED
            BY <3>1, <3>2
    <2>3. ASSUME Tracked' PROVE EndIsRight'
        <3>1. CASE at \in stale
            BY <1>12, <2>3, <3>1 DEF GiveBack, Abort, EndIsRight
        <3>2. CASE at \notin stale
            BY <1>12, <2>3, <3>2 DEF GiveBack, Conflict, Abort, Discard, ActionOf,
                ExchangedIsRight, ForwardIsRight, EndIsRight
        <3> QED
            BY <3>1, <3>2
    <2>4. ASSUME Tracked' PROVE ForwardIsRight'
        BY <1>12, <2>4 DEF GiveBack, Conflict, Abort, Discard, ForwardIsRight, ActionOf, Left,
            NewBody
    <2>5. ASSUME Tracked' PROVE BackIsRight'
        BY <1>12, <2>5 DEF GiveBack, Conflict, Abort, Discard, BackIsRight, ActionOf, Left,
            NewBody
    <2>6. ASSUME Tracked' PROVE VerifyingIsRight'
        BY <1>12, <2>6 DEF GiveBack, Conflict, Abort, Discard, VerifyingIsRight, ActionOf, Left,
            NewBody
    <2>7. ASSUME Tracked' PROVE ExchangedIsRight'
        BY <1>12, <2>7 DEF GiveBack, Conflict, Abort, Discard, ExchangedIsRight, ActionOf, Left,
            NewBody
    <2>8. ASSUME Tracked' PROVE CopyingIsRight'
        BY <1>12, <2>8 DEF GiveBack, Working, Left, ActionOf, Conflict, Abort, Discard,
            ForwardIsRight, CopyingIsRight
    <2> QED
        BY <2>1, <2>2, <2>3, <2>4, <2>5, <2>6, <2>7, <2>8 DEF Accounted
<1>13. ASSUME GiveBackFails PROVE Accounted'
    <2>1. ASSUME Tracked' PROVE OthersAreRight'
        BY <1>13, <2>1 DEF GiveBackFails, Abort, OthersAreRight
    <2>2. ASSUME Tracked' PROVE PublishedIsRight'
        BY <1>13, <2>2 DEF GiveBackFails, Abort, PublishedIsRight, ExchangedIsRight, NewBody
    <2>3. ASSUME Tracked' PROVE EndIsRight'
        BY <1>13, <2>3 DEF GiveBackFails, Abort, EndIsRight
    <2>4. ASSUME Tracked' PROVE ForwardIsRight'
        BY <1>13, <2>4 DEF GiveBackFails, Abort, ForwardIsRight
    <2>5. ASSUME Tracked' PROVE BackIsRight'
        BY <1>13, <2>5 DEF GiveBackFails, Abort, BackIsRight
    <2>6. ASSUME Tracked' PROVE VerifyingIsRight'
        BY <1>13, <2>6 DEF GiveBackFails, Abort, VerifyingIsRight
    <2>7. ASSUME Tracked' PROVE ExchangedIsRight'
        BY <1>13, <2>7 DEF GiveBackFails, Abort, ExchangedIsRight
    <2>8. ASSUME Tracked' PROVE CopyingIsRight'
        BY <1>13, <2>8 DEF GiveBackFails, Abort, CopyingIsRight
    <2> QED
        BY <2>1, <2>2, <2>3, <2>4, <2>5, <2>6, <2>7, <2>8 DEF Accounted
<1>14. ASSUME Replace PROVE Accounted'
    <2>1. ASSUME Tracked' PROVE OthersAreRight'
        BY <1>14, <2>1 DEF Replace, NewBody, OthersAreRight, ActionOf, Left
    <2>2. ASSUME Tracked' PROVE PublishedIsRight'
        BY <1>14, <2>2 DEF Replace, NewBody, PublishedIsRight, ActionOf, Left, ForwardIsRight,
            BackIsRight
    <2>3. ASSUME Tracked' PROVE EndIsRight'
        BY <1>14, <2>3 DEF Replace, NewBody, EndIsRight, ActionOf, Left
    <2>4. ASSUME Tracked' PROVE ForwardIsRight'
        BY <1>14, <2>4 DEF Replace, NewBody, ForwardIsRight, ActionOf, Left
    <2>5. ASSUME Tracked' PROVE BackIsRight'
        BY <1>14, <2>5 DEF Replace, NewBody, BackIsRight, ActionOf, Left
    <2>6. ASSUME Tracked' PROVE VerifyingIsRight'
        BY <1>14, <2>6 DEF Replace, NewBody, VerifyingIsRight, ActionOf, Left, ForwardIsRight,
            BackIsRight
    <2>7. ASSUME Tracked' PROVE ExchangedIsRight'
        BY <1>14, <2>7 DEF Replace, NewBody, ExchangedIsRight, ActionOf, Left
    <2>8. ASSUME Tracked' PROVE CopyingIsRight'
        BY <1>14, <2>8 DEF Replace, Working, Left, ActionOf, Conflict, Abort, Discard,
            ForwardIsRight, CopyingIsRight
    <2> QED
        BY <2>1, <2>2, <2>3, <2>4, <2>5, <2>6, <2>7, <2>8 DEF Accounted
<1>15. ASSUME Verify PROVE Accounted'
    BY <1>15 DEF Verify, NewBody, Abort, Left, ActionOf, OthersAreRight, PublishedIsRight,
        EndIsRight, ForwardIsRight, BackIsRight, CopyingIsRight, VerifyingIsRight, ExchangedIsRight
<1>16. ASSUME Fails PROVE Accounted'
    BY <1>16 DEF Fails, Abort, Left, ActionOf, NewBody, OthersAreRight, PublishedIsRight,
        EndIsRight, ForwardIsRight, BackIsRight, CopyingIsRight, VerifyingIsRight, ExchangedIsRight
<1>17. ASSUME Record PROVE Accounted'
    <2>1. ASSUME Tracked' PROVE OthersAreRight'
        BY <1>17, <2>1 DEF Record, Left, Working, OthersAreRight, ActionOf, NewBody
    <2>2. ASSUME Tracked' PROVE PublishedIsRight'
        BY <1>17, <2>2 DEF Record, Left, Working, PublishedIsRight, ActionOf, NewBody,
            ForwardIsRight
    <2>3. ASSUME Tracked' PROVE EndIsRight'
        BY <1>17, <2>3 DEF Record, Left, Working, EndIsRight, ActionOf, NewBody
    <2>4. ASSUME Tracked' PROVE ForwardIsRight'
        BY <1>17, <2>4 DEF Record, Left, Working, ForwardIsRight, ActionOf, NewBody
    <2>5. ASSUME Tracked' PROVE BackIsRight'
        BY <1>17, <2>5 DEF Record, Left, Working, BackIsRight, ActionOf, NewBody
    <2>6. ASSUME Tracked' PROVE VerifyingIsRight'
        BY <1>17, <2>6 DEF Record, Left, Working, VerifyingIsRight, ActionOf, NewBody
    <2>7. ASSUME Tracked' PROVE ExchangedIsRight'
        BY <1>17, <2>7 DEF Record, Left, Working, ExchangedIsRight, ActionOf, NewBody
    <2>8. ASSUME Tracked' PROVE CopyingIsRight'
        BY <1>17, <2>8 DEF Record, Working, Left, ActionOf, Conflict, Abort, Discard,
            ForwardIsRight, CopyingIsRight
    <2> QED
        BY <2>1, <2>2, <2>3, <2>4, <2>5, <2>6, <2>7, <2>8 DEF Accounted
<1>18. ASSUME RemoveJournal PROVE Accounted'
    BY <1>18 DEF RemoveJournal, Left, ActionOf, NewBody, OthersAreRight, PublishedIsRight,
        EndIsRight, ForwardIsRight, BackIsRight, CopyingIsRight, VerifyingIsRight, ExchangedIsRight
<1>19. ASSUME Preflight PROVE Accounted'
    <2>1. ASSUME Tracked' PROVE OthersAreRight'
        BY <1>19, <2>1 DEF Preflight, Valid, Expected, ActionOf, OthersAreRight, Left, NewBody
    <2>2. ASSUME Tracked' PROVE PublishedIsRight'
        BY <1>19, <2>2 DEF Preflight, Valid, Expected, ActionOf, PublishedIsRight, Left, NewBody
    <2>3. ASSUME Tracked' PROVE EndIsRight'
        BY <1>19, <2>3 DEF Preflight, Valid, Expected, ActionOf, EndIsRight, Left, NewBody,
            PublishedIsRight
    <2>4. ASSUME Tracked' PROVE ForwardIsRight'
        BY <1>19, <2>4 DEF Preflight, Valid, Expected, ActionOf, ForwardIsRight, Left, NewBody
    <2>5. ASSUME Tracked' PROVE BackIsRight'
        <3>1. CASE ~Valid(now) \/ now.id \in recorded
            BY <1>19, <3>1 DEF Preflight, BackIsRight
        <3>2. CASE Valid(now) /\ now.id \notin recorded
            <4>1. /\ now' = now /\ UNCHANGED <<file, sees, overlapped, unnoticed>>
                  /\ done' = {a \in Artifacts : file[a] = now.orig[a]}
                  /\ now \in journals /\ pc # "exchanged" /\ stale' = stale \ Selected(now)
                BY <1>19, <3>2 DEF Preflight
            <4>2. \A a \in Selected(now) : file[a] # now.orig[a] =>
                      file[a] = now.body[a] /\ now.orig[a] # now.body[a]
                BY <3>2 DEF Valid, Expected, ActionOf
            <4>3. ASSUME NEW a \in Selected(now), file[a] # now.orig[a]
                  PROVE  file[a] = now.body[a] /\ sees[a] = now.orig[a]
                BY <2>5, <3>2, <4>1, <4>2, <4>3 DEF PublishedIsRight
            <4> QED
                BY <4>1, <4>3 DEF BackIsRight, Left
        <3> QED
            BY <3>1, <3>2
    <2>6. ASSUME Tracked' PROVE VerifyingIsRight'
        BY <1>19, <2>6 DEF Preflight, Valid, Expected, ActionOf, VerifyingIsRight, Left, NewBody
    <2>7. ASSUME Tracked' PROVE ExchangedIsRight'
        BY <1>19, <2>7 DEF Preflight, Valid, Expected, ActionOf, ExchangedIsRight, Left, NewBody
    <2>8. ASSUME Tracked' PROVE CopyingIsRight'
        BY <1>19, <2>8 DEF Preflight, Working, Left, ActionOf, Conflict, Abort, Discard,
            ForwardIsRight, CopyingIsRight
    <2> QED
        BY <2>1, <2>2, <2>3, <2>4, <2>5, <2>6, <2>7, <2>8 DEF Accounted
<1>20. ASSUME RolledBack PROVE Accounted'
    <2>1. ASSUME Tracked' PROVE OthersAreRight'
        BY <1>20, <2>1 DEF RolledBack, Left, Working, Abort, OthersAreRight, ActionOf, NewBody
    <2>2. ASSUME Tracked' PROVE PublishedIsRight'
        BY <1>20, <2>2 DEF RolledBack, Left, Working, Abort, PublishedIsRight, ActionOf, NewBody
    <2>3. ASSUME Tracked' PROVE EndIsRight'
        <3>1. CASE \A a \in Selected(now) : file[a] = now.orig[a]
            <4>1. /\ now' = now /\ UNCHANGED <<file, sees, overlapped, unnoticed>>
                  /\ now \in journals /\ pc = "publishing" /\ now.id \notin recorded
                BY <1>20, <3>1 DEF RolledBack, Working
            <4> QED
                BY <2>3, <3>1, <4>1 DEF PublishedIsRight, EndIsRight
        <3>2. CASE ~(\A a \in Selected(now) : file[a] = now.orig[a])
            BY <1>20, <3>2 DEF RolledBack, Working, Abort, EndIsRight
        <3> QED
            BY <3>1, <3>2
    <2>4. ASSUME Tracked' PROVE ForwardIsRight'
        BY <1>20, <2>4 DEF RolledBack, Left, Working, Abort, ForwardIsRight, ActionOf, NewBody
    <2>5. ASSUME Tracked' PROVE BackIsRight'
        BY <1>20, <2>5 DEF RolledBack, Left, Working, Abort, BackIsRight, ActionOf, NewBody
    <2>6. ASSUME Tracked' PROVE VerifyingIsRight'
        BY <1>20, <2>6 DEF RolledBack, Left, Working, Abort, VerifyingIsRight, ActionOf, NewBody
    <2>7. ASSUME Tracked' PROVE ExchangedIsRight'
        BY <1>20, <2>7 DEF RolledBack, Left, Working, Abort, ExchangedIsRight, ActionOf, NewBody
    <2>8. ASSUME Tracked' PROVE CopyingIsRight'
        BY <1>20, <2>8 DEF RolledBack, Working, Left, ActionOf, Conflict, Abort, Discard,
            ForwardIsRight, CopyingIsRight
    <2> QED
        BY <2>1, <2>2, <2>3, <2>4, <2>5, <2>6, <2>7, <2>8 DEF Accounted
<1>21. ASSUME Tidy PROVE Accounted'
    BY <1>21 DEF Tidy, Left, ActionOf, NewBody, OthersAreRight, PublishedIsRight,
        EndIsRight, ForwardIsRight, BackIsRight, CopyingIsRight, VerifyingIsRight, ExchangedIsRight
<1>22. ASSUME Recovered PROVE Accounted'
    BY <1>22 DEF Recovered, Left, ActionOf, NewBody, OthersAreRight, PublishedIsRight,
        EndIsRight, ForwardIsRight, BackIsRight, CopyingIsRight, VerifyingIsRight, ExchangedIsRight
<1>23. ASSUME RecoveryFails PROVE Accounted'
    BY <1>23 DEF RecoveryFails, Left, ActionOf, NewBody, OthersAreRight, PublishedIsRight,
        EndIsRight, ForwardIsRight, BackIsRight, CopyingIsRight, VerifyingIsRight, ExchangedIsRight
<1>24. ASSUME StartUp PROVE Accounted'
    BY <1>24 DEF StartUp, Left, ActionOf, NewBody, OthersAreRight, PublishedIsRight,
        EndIsRight, ForwardIsRight, BackIsRight, CopyingIsRight, VerifyingIsRight, ExchangedIsRight
<1>25. ASSUME NextJournal PROVE Accounted'
    BY <1>25 DEF NextJournal, Left, ActionOf, NewBody, OthersAreRight, PublishedIsRight,
        EndIsRight, ForwardIsRight, BackIsRight, CopyingIsRight, VerifyingIsRight, ExchangedIsRight
<1>26. ASSUME Crash PROVE Accounted'
    BY <1>26 DEF Crash, Left, ActionOf, NewBody, OthersAreRight, PublishedIsRight,
        EndIsRight, ForwardIsRight, BackIsRight, CopyingIsRight, VerifyingIsRight, ExchangedIsRight
<1>27. ASSUME NEW a \in Artifacts, NEW b \in Whole, Foreign(a, b) PROVE Accounted'
    BY <1>27 DEF Foreign, Left, ActionOf, NewBody, OthersAreRight, PublishedIsRight,
        EndIsRight, ForwardIsRight, BackIsRight, CopyingIsRight, VerifyingIsRight, ExchangedIsRight
<1>28. ASSUME Copy PROVE Accounted'
    <2>1. ASSUME Tracked' PROVE OthersAreRight'
        BY <1>28, <2>1 DEF Copy, Left, ActionOf, NewBody, OthersAreRight
    <2>2. ASSUME Tracked' PROVE PublishedIsRight'
        BY <1>28, <2>2 DEF Copy, Left, ActionOf, NewBody, PublishedIsRight, CopyingIsRight
    <2>3. ASSUME Tracked' PROVE EndIsRight'
        BY <1>28, <2>3 DEF Copy, Left, ActionOf, NewBody, EndIsRight
    <2>4. ASSUME Tracked' PROVE ForwardIsRight'
        BY <1>28, <2>4 DEF Copy, Left, ActionOf, NewBody, ForwardIsRight
    <2>5. ASSUME Tracked' PROVE BackIsRight'
        BY <1>28, <2>5 DEF Copy, Left, ActionOf, NewBody, BackIsRight
    <2>6. ASSUME Tracked' PROVE VerifyingIsRight'
        BY <1>28, <2>6 DEF Copy, Left, ActionOf, NewBody, VerifyingIsRight, CopyingIsRight
    <2>7. ASSUME Tracked' PROVE ExchangedIsRight'
        BY <1>28, <2>7 DEF Copy, Left, ActionOf, NewBody, ExchangedIsRight
    <2>8. ASSUME Tracked' PROVE CopyingIsRight'
        BY <1>28, <2>8 DEF Copy, Left, ActionOf, NewBody, CopyingIsRight
    <2> QED
        BY <2>1, <2>2, <2>3, <2>4, <2>5, <2>6, <2>7, <2>8 DEF Accounted
<1>29. ASSUME CopyFails PROVE Accounted'
    <2>1. ASSUME Tracked' PROVE OthersAreRight'
        BY <1>29, <2>1 DEF CopyFails, Abort, Left, ActionOf, OthersAreRight
    <2>2. ASSUME Tracked' PROVE PublishedIsRight'
        BY <1>29, <2>2 DEF CopyFails, Abort, Left, ActionOf, PublishedIsRight, CopyingIsRight
    <2>3. ASSUME Tracked' PROVE EndIsRight'
        BY <1>29, <2>3 DEF CopyFails, Abort, Left, ActionOf, EndIsRight
    <2>4. ASSUME Tracked' PROVE ForwardIsRight'
        BY <1>29, <2>4 DEF CopyFails, Abort, Left, ActionOf, ForwardIsRight
    <2>5. ASSUME Tracked' PROVE BackIsRight'
        BY <1>29, <2>5 DEF CopyFails, Abort, Left, ActionOf, BackIsRight
    <2>6. ASSUME Tracked' PROVE VerifyingIsRight'
        BY <1>29, <2>6 DEF CopyFails, Abort, Left, ActionOf, VerifyingIsRight
    <2>7. ASSUME Tracked' PROVE ExchangedIsRight'
        BY <1>29, <2>7 DEF CopyFails, Abort, Left, ActionOf, ExchangedIsRight
    <2>8. ASSUME Tracked' PROVE CopyingIsRight'
        BY <1>29, <2>8 DEF CopyFails, Abort, Left, ActionOf, CopyingIsRight
    <2> QED
        BY <2>1, <2>2, <2>3, <2>4, <2>5, <2>6, <2>7, <2>8 DEF Accounted
<1> QED
    BY <1>0, <1>1, <1>2, <1>3, <1>4, <1>5, <1>6, <1>7, <1>8, <1>9, <1>10, <1>11, <1>12,
        <1>13, <1>14, <1>15, <1>16, <1>17, <1>18, <1>19, <1>20, <1>21, <1>22, <1>23, <1>24,
        <1>25, <1>26, <1>27, <1>28, <1>29 DEF Next, Publish, Recover

\* It holds at the first start: no publication, no journal, every file is what it is.
LEMMA TrustInit ==
    ASSUME Init
    PROVE  Trust
<1> USE NoPlanIsPlan, PlanParts, FileParts DEF Init
<1>1. TypeOK
    <2>1. /\ aside \in [Artifacts -> SUBSET (Files \ {None})] /\ unseen \in [Artifacts -> Whole]
          /\ file \in [Artifacts -> Files] /\ sees \in [Artifacts -> Whole]
        OBVIOUS
    <2>2. begun \in 0..MaxPublications /\ foreign \in 0..MaxForeign
        OBVIOUS
    <2> QED
        BY <2>1, <2>2 DEF TypeOK, Steps
<1>2. Shape
    BY <1>1 DEF TypeOK, Shape, Busy, AtFile, Resting
<1>3. Fresh
    BY DEF Fresh
<1>4. Restorable
    BY DEF Restorable, OneJournal, AsPreviewed, Untouched, HeldIsKnown, DoneIsWritten, Busy
<1>5. Attributed
    BY DEF Attributed, ThereOrHeld, NeverProposed, LeftIsSeen, Busy
<1>6. Accounted
    BY DEF Accounted, Tracked, OthersAreRight, PublishedIsRight, EndIsRight, ForwardIsRight,
        BackIsRight, CopyingIsRight, VerifyingIsRight, ExchangedIsRight, Busy
<1> QED
    BY <1>1, <1>2, <1>3, <1>4, <1>5, <1>6 DEF Trust

\* The inductive invariant of the publication holds in every behaviour.
THEOREM MetadataInvariant == Spec => []Trust
<1>1. Init => Trust
    BY TrustInit
<1>2. Trust /\ [Next]_vars => Trust'
    BY TypeStep, ShapeStep, FreshStep, RestorableStep, AttributedStep, AccountedStep
        DEF Trust, Restorable
<1> QED
    BY <1>1, <1>2, PTL DEF Spec

\* Types, and that a publication past its journal has one on disk.
THEOREM MetadataTypeCorrect == Spec => []TypeOK
BY MetadataInvariant, PTL DEF Trust

\* A publication that nobody disturbs can be recovered from wherever it was cut, but in the
\* copy that stands in for a link.
THEOREM JournalsCanBeRecovered == Spec => []JournalCanBeRecovered
<1>1. Trust => JournalCanBeRecovered
    BY DEF Trust, Restorable, Untouched, JournalCanBeRecovered
<1> QED
    BY <1>1, MetadataInvariant, PTL

\* What others wrote and no preview has shown keeps its name or stands aside.
THEOREM UnseenWritesAreKept == Spec => []UnseenIsKept
<1>1. Trust => UnseenIsKept
    BY DEF Trust, TypeOK, Attributed, ThereOrHeld, UnseenIsKept
<1> QED
    BY <1>1, MetadataInvariant, PTL

\* With the lock free and no journal left, all files of a publication were written or none.
THEOREM PublicationsAreAtomic == Spec => []AllOrNothing
<1>1. Trust => AllOrNothing
    <2> SUFFICES ASSUME Trust, journals = {}, ~overlapped, ~unnoticed PROVE file = sees
        BY DEF AllOrNothing
    <2>1. \A a \in Artifacts : file[a] = sees[a]
        BY DEF Trust, Accounted, Tracked, OthersAreRight
    <2> QED
        BY <2>1 DEF Trust, TypeOK
<1> QED
    BY <1>1, MetadataInvariant, PTL
================================================================================
