-------------------------- MODULE MetadataPublication --------------------------
(***************************************************************************)
(* The publication of reviewed metadata beside a video                     *)
(* (media_metadata/review/manager.py, journal.py, store.py and the file    *)
(* operations of media_metadata/publish.py).                               *)
(*                                                                         *)
(* A publication writes several sidecar files (NFO, portrait, landscape)   *)
(* and one row in the database, and all of it is to happen or nothing.     *)
(* Before the first file is touched a journal is written that names, for   *)
(* each file, what was there and what is to be there; what was there is    *)
(* in a backup by then.  The row is the commit.  After an error the        *)
(* publication recovers from its journal at once, after a crash the next   *)
(* start does: a committed publication is checked and kept, any other is   *)
(* rolled back.                                                            *)
(*                                                                         *)
(* The files belong to others too (a media server, the operator, the       *)
(* automatic metadata): they may write or delete one at any moment, and    *)
(* what they wrote after the preview is not to be overwritten.  A file is  *)
(* therefore exchanged with its replacement and looked at afterwards.      *)
(*                                                                         *)
(* One action is one file-system call or transaction, or several between   *)
(* which nobody's step matters.  Previews, publications and recoveries     *)
(* exclude one another (_publication_guard): they are one process here.    *)
(*                                                                         *)
(* Journals and backups are written under the root of the backups, a       *)
(* directory of the service: links are taken to succeed there, so that a   *)
(* journal is on disk as a whole or not at all.  In the library they may   *)
(* fail (Create).                                                          *)
(***************************************************************************)
EXTENDS Naturals

CONSTANTS
    Artifacts,        \* the sidecar files of the video
    Bodies,           \* what a file may hold
    None,             \* no file
    Partial,          \* what a copy cut short leaves of a body
    MaxPublications,  \* bound: publications begun
    MaxForeign        \* bound: writes by others

ASSUME MetadataAssumption ==
    /\ None \notin Bodies \cup Artifacts /\ Partial \notin Bodies \cup {None}
    /\ MaxPublications \in Nat /\ MaxForeign \in Nat

Whole == Bodies \cup {None}
Files == Whole \cup {Partial}

\* What a preview and a journal say: the body each file had and the one it is to have;
\* None for a file that is not published.
Plans == [id : 0..MaxPublications, orig : [Artifacts -> Files], body : [Artifacts -> Whole]]
NoPlan == [id |-> 0, orig |-> [a \in Artifacts |-> None], body |-> [a \in Artifacts |-> None]]

Selected(p) == {a \in Artifacts : p.body[a] # None}

ActionOf(p, a) == IF p.orig[a] = None THEN "create"
                  ELSE IF p.orig[a] = p.body[a] THEN "unchanged" ELSE "replace"

VARIABLES
    exchange,   \* the filesystem can exchange two names
    file,       \* the sidecar files
    aside,      \* what an exchange has moved to a temporary file beside each
    journals,   \* on disk
    recorded,   \* publications whose row is in the database
    begun,      \* publications so far
    preview,    \* the one preview not yet consumed
    serving,    \* the review manager exists
    pc,         \* where the holder of the publication lock is
    now,        \* the publication it works on
    back,       \* it rolls back
    done,       \* files it is through with
    at,         \* the file it is at
    held,       \* the body an exchange gave it
    matches,    \* that was the file it expected
    todo,       \* journals loaded at the start and not yet recovered
    stale,      \* files that others wrote since they were last looked at
    foreign,    \* writes by others so far
    sees,       \* history: what each file is to hold by what was recorded and what others wrote
    unseen,     \* history: what others wrote and no preview has shown
    touched,    \* history: others wrote a file of a publication since its preview
    overlapped, \* history: a publication wrote its journal beside another one
    unnoticed   \* history: what others wrote was replaced, or not yet given back at a crash

disk == <<file, aside, journals, recorded>>
step == <<now, back, done, at, held, matches>>
count == <<begun, foreign>>
history == <<sees, unseen, touched, overlapped, unnoticed>>
vars == <<exchange, disk, preview, serving, pc, step, todo, stale, count, history>>

Steps == {"down", "loading", "idle", "checking", "journaling", "publishing", "copying",
          "replacing", "exchanged", "verifying", "recorded", "discarding",
          "preflight", "tidying", "removing"}

TypeOK ==
    /\ exchange \in BOOLEAN
    /\ file \in [Artifacts -> Files] /\ aside \in [Artifacts -> SUBSET (Files \ {None})]
    /\ journals \subseteq Plans /\ recorded \subseteq 1..MaxPublications
    /\ begun \in 0..MaxPublications /\ foreign \in 0..MaxForeign
    /\ preview \in Plans /\ now \in Plans
    /\ serving \in BOOLEAN /\ back \in BOOLEAN /\ matches \in BOOLEAN
    /\ pc \in Steps
    /\ done \subseteq Artifacts /\ stale \subseteq Artifacts
    /\ at \in Artifacts \cup {None} /\ held \in Files
    /\ todo \subseteq Plans
    /\ sees \in [Artifacts -> Whole] /\ unseen \in [Artifacts -> Whole]
    /\ touched \in BOOLEAN /\ overlapped \in BOOLEAN /\ unnoticed \in BOOLEAN
    /\ pc \in {"copying", "replacing", "exchanged", "verifying"} => at \in Selected(now)
    /\ pc = "exchanged" => held \in aside[at]
    /\ pc \notin {"down", "loading", "idle", "checking", "journaling"} => now \in journals

Init ==
    /\ exchange \in BOOLEAN
    /\ file \in [Artifacts -> Whole]
    /\ aside = [a \in Artifacts |-> {}]
    /\ journals = {} /\ recorded = {}
    /\ preview = NoPlan /\ now = NoPlan
    /\ serving = TRUE /\ pc = "idle"
    /\ back = FALSE /\ done = {} /\ at = None /\ held = None /\ matches = FALSE
    /\ todo = {} /\ stale = {}
    /\ begun = 0 /\ foreign = 0
    /\ sees = file /\ unseen = [a \in Artifacts |-> None]
    /\ touched = FALSE /\ overlapped = FALSE /\ unnoticed = FALSE

\* same_artifact_state: body and identity are those of the last look.
Same(p, a) == IF p.orig[a] = None THEN file[a] = None ELSE a \notin stale

Goto(s) == pc' = s
Stay == UNCHANGED <<now, back, done>>
NoSwap == at' = None /\ held' = None /\ matches' = FALSE

\* The holder of the lock gives it back or goes on to the next journal.
Leave(s) == Goto(s) /\ now' = NoPlan /\ back' = FALSE /\ done' = {} /\ NoSwap

--------------------------------------------------------------------------------
\* Preview and the checks of _publish_locked.

Preview ==
    /\ pc = "idle" /\ begun < MaxPublications
    /\ \E body \in [Artifacts -> Whole] :
           /\ preview' = [id |-> begun + 1, body |-> body,
                          orig |-> [a \in Artifacts |-> IF body[a] = None THEN None ELSE file[a]]]
           /\ Selected(preview') # {}
           /\ stale' = stale \ Selected(preview')
           /\ unseen' = [a \in Artifacts |-> IF body[a] = None THEN unseen[a] ELSE None]
    /\ UNCHANGED <<exchange, disk, serving, pc, step, todo, count, sees, touched, overlapped,
                   unnoticed>>

\* The preview is consumed; it may have expired, or the draft may have changed since.
Begin ==
    /\ pc = "idle" /\ preview # NoPlan
    /\ preview' = NoPlan
    /\ \/ /\ now' = preview /\ begun' = preview.id /\ Goto("checking")
          /\ touched' = ((touched /\ journals # {})
                             \/ \E a \in Selected(preview) : ~Same(preview, a))
       \/ UNCHANGED <<now, begun, pc, touched>>
    /\ UNCHANGED <<exchange, disk, serving, back, done, at, held, matches, todo, stale, foreign,
                   sees, unseen, overlapped, unnoticed>>

\* Every file is as the preview saw it; what is to be replaced is copied to a backup, whose
\* body is the preview's.
Check ==
    /\ pc = "checking"
    /\ IF \A a \in Selected(now) : Same(now, a)
       THEN Goto("journaling") /\ UNCHANGED step
       ELSE Leave("idle")
    /\ UNCHANGED <<exchange, disk, preview, serving, todo, stale, count, history>>

PersistJournal ==
    /\ pc = "journaling"
    /\ journals' = journals \cup {now}
    /\ overlapped' = (overlapped \/ journals # {})
    /\ Goto("publishing")
    /\ UNCHANGED <<exchange, file, aside, recorded, preview, serving, step, todo, stale, count,
                   sees, unseen, touched, unnoticed>>

\* An error before there is a journal to recover from: it may have been linked all the same
\* (a failing fsync, a failing read), and then it stays.
PersistFails ==
    /\ pc \in {"checking", "journaling"}
    /\ journals' \in IF pc = "journaling" THEN {journals, journals \cup {now}} ELSE {journals}
    /\ overlapped' = (overlapped \/ (journals' # journals /\ journals # {}))
    /\ Leave("idle")
    /\ UNCHANGED <<exchange, file, aside, recorded, preview, serving, todo, stale, count,
                   sees, unseen, touched, unnoticed>>

--------------------------------------------------------------------------------
\* The files, in either direction: forward to the proposed body, back to the original.

Left == Selected(now) \ done
Working == pc = "publishing"

NewBody(a) == IF back THEN now.orig[a] ELSE now.body[a]

\* A conflict found before any file was changed discards the journal; otherwise, and
\* after any other error, the publication recovers from it.
Discard ==
    Goto(IF \A a \in done : ActionOf(now, a) = "unchanged" THEN "discarding" ELSE "preflight")

\* Where an error leads: out of a recovery, or into one.
Abort == IF back THEN Leave(IF serving THEN "idle" ELSE "down")
         ELSE Goto("preflight") /\ Stay /\ NoSwap

Conflict == IF back THEN Abort ELSE Discard /\ Stay /\ NoSwap

Unchanged(a) ==
    /\ Working /\ a \in Left /\ ~back /\ ActionOf(now, a) = "unchanged"
    /\ IF file[a] = now.body[a]
       THEN done' = done \cup {a} /\ UNCHANGED <<pc, now, back, at, held, matches>>
       ELSE Conflict
    /\ UNCHANGED <<exchange, disk, preview, serving, todo, stale, count, history>>

\* _publish_no_replace: a link under a name that must be free; where the link fails, the
\* name is taken by an empty file and the body copied into it.
Create(a) ==
    /\ Working /\ a \in Left /\ ~back /\ ActionOf(now, a) = "create"
    /\ IF file[a] = None
       THEN /\ \/ file' = [file EXCEPT ![a] = now.body[a]] /\ Goto("verifying")
               \/ file' = [file EXCEPT ![a] = Partial] /\ Goto("copying")
            /\ stale' = stale \ {a}
            /\ at' = a
            /\ UNCHANGED <<now, back, done, held, matches>>
       ELSE Conflict /\ UNCHANGED <<file, stale>>
    /\ UNCHANGED <<exchange, aside, journals, recorded, preview, serving, todo, count, history>>

\* The copy goes on in the file it has opened, whoever has the name by now.
Copy ==
    /\ pc = "copying"
    /\ file' = IF at \in stale THEN file ELSE [file EXCEPT ![at] = now.body[at]]
    /\ Goto("verifying")
    /\ UNCHANGED <<exchange, aside, journals, recorded, preview, serving, step, todo, stale,
                   count, history>>

\* An error in the copy: what has the name is unlinked, unless that fails too.
CopyFails ==
    /\ pc = "copying"
    /\ Abort
    /\ \/ /\ file' = [file EXCEPT ![at] = None]
          /\ unnoticed' = (unnoticed \/ (at \in stale /\ file[at] # None))
       \/ UNCHANGED <<file, unnoticed>>
    /\ UNCHANGED <<exchange, aside, journals, recorded, preview, serving, todo, stale, count,
                   sees, unseen, touched, overlapped>>

\* Back: what was created is unlinked, if it is still the file of the preflight.
Uncreate(a) ==
    /\ Working /\ a \in Left /\ back /\ ActionOf(now, a) = "create"
    /\ IF a \in stale THEN Abort /\ UNCHANGED file
       ELSE /\ file' = [file EXCEPT ![a] = None]
            /\ done' = done \cup {a}
            /\ UNCHANGED <<pc, now, back, at, held, matches>>
    /\ UNCHANGED <<exchange, aside, journals, recorded, preview, serving, todo, stale, count,
                   history>>

\* replace_regular_artifact, where names can be exchanged: the old file is looked at after
\* the exchange.
Exchange(a) ==
    /\ exchange
    /\ \/ Working /\ a \in Left /\ ~back /\ ActionOf(now, a) = "replace"
       \/ pc = "replacing" /\ a = at
    /\ IF file[a] = None THEN Abort /\ UNCHANGED <<file, aside, stale>>
       ELSE /\ file' = [file EXCEPT ![a] = NewBody(a)]
            /\ aside' = [aside EXCEPT ![a] = @ \cup {file[a]}]
            /\ at' = a /\ held' = file[a] /\ matches' = (a \notin stale)
            /\ stale' = stale \ {a}
            /\ Goto("exchanged") /\ Stay
    /\ UNCHANGED <<exchange, journals, recorded, preview, serving, todo, count, history>>

\* Mutant: what the exchange gave back is not looked at.
AcceptUnseen ==
    /\ pc = "exchanged"
    /\ aside' = [aside EXCEPT ![at] = @ \ {held}]
    /\ Goto("verifying") /\ held' = None /\ matches' = FALSE
    /\ Stay
    /\ UNCHANGED <<exchange, file, journals, recorded, preview, serving, at, todo, stale, count,
                   history>>

Accept ==
    /\ pc = "exchanged" /\ matches
    /\ aside' = [aside EXCEPT ![at] = @ \ {held}]
    /\ Goto("verifying") /\ held' = None /\ matches' = FALSE
    /\ Stay
    /\ UNCHANGED <<exchange, file, journals, recorded, preview, serving, at, todo, stale, count,
                   history>>

\* It was another file, or reading or unlinking it failed: it is exchanged back, unless
\* the name meanwhile leads to a third file; then both stay.
GiveBack ==
    /\ pc = "exchanged"
    /\ IF at \in stale THEN Abort /\ UNCHANGED <<file, aside>>
       ELSE /\ file' = [file EXCEPT ![at] = held]
            /\ aside' = [aside EXCEPT ![at] = @ \ {held}]
            /\ IF matches THEN Abort ELSE Conflict
    /\ stale' = stale \cup {at}
    /\ UNCHANGED <<exchange, journals, recorded, preview, serving, todo, count, history>>

GiveBackFails ==
    /\ pc = "exchanged"
    /\ Abort
    /\ unnoticed' = (unnoticed \/ ~matches)
    /\ UNCHANGED <<exchange, disk, preview, serving, todo, stale, count, sees, unseen, touched,
                   overlapped>>

\* The file is looked at before it is exchanged or replaced: on the way back
\* (rollback_journal_artifacts), and where names cannot be exchanged (replace_regular_artifact).
Look(a) ==
    /\ Working /\ a \in Left /\ ActionOf(now, a) = "replace" /\ (back \/ ~exchange)
    /\ IF file[a] = None THEN Abort
       ELSE IF a \in stale THEN Conflict
       ELSE Goto("replacing") /\ at' = a /\ Stay /\ UNCHANGED <<held, matches>>
    /\ UNCHANGED <<exchange, disk, preview, serving, todo, stale, count, history>>

Replace ==
    /\ pc = "replacing" /\ ~exchange
    /\ file' = [file EXCEPT ![at] = NewBody(at)]
    /\ unnoticed' = (unnoticed \/ at \in stale)
    /\ stale' = stale \ {at}
    /\ Goto("verifying")
    /\ UNCHANGED <<exchange, aside, journals, recorded, preview, serving, step, todo, count,
                   sees, unseen, touched, overlapped>>

Verify ==
    /\ pc = "verifying"
    /\ IF file[at] = NewBody(at)
       THEN /\ done' = done \cup {at} /\ Goto("publishing") /\ NoSwap
            /\ UNCHANGED <<now, back>>
       ELSE Abort
    /\ UNCHANGED <<exchange, disk, preview, serving, todo, stale, count, history>>

\* Any other error: a write, an fsync, a read, the transaction.
Fails ==
    /\ pc \in {"publishing", "replacing", "verifying"}
    /\ Abort
    /\ UNCHANGED <<exchange, disk, preview, serving, todo, stale, count, history>>

--------------------------------------------------------------------------------
\* The commit.

\* record_publication: the row is inserted if the review's revision is still that of the
\* preview; an error after the commit leads to the recovery, which finds the row.
Record ==
    /\ Working /\ ~back /\ Left = {}
    /\ recorded' = recorded \cup {now.id}
    /\ sees' = [a \in Artifacts |-> IF a \in Selected(now) \ stale THEN now.body[a] ELSE sees[a]]
    /\ Goto("recorded") \/ Goto("preflight")
    /\ UNCHANGED <<exchange, file, aside, journals, preview, serving, step, todo, stale, count,
                   unseen, touched, overlapped, unnoticed>>

\* The journal goes when the publication is through, or when a conflict came before any
\* change; an error leaves it for the next start.
RemoveJournal ==
    /\ pc \in {"recorded", "discarding"}
    /\ journals' \in {journals \ {now}, journals}
    /\ Leave("idle")
    /\ UNCHANGED <<exchange, file, aside, recorded, preview, serving, todo, stale, count, history>>

--------------------------------------------------------------------------------
\* Recovery: _recover_publish_journal.

\* Mutant: a crash before the file was created is not thought of.
ExpectedCreated(p, a) ==
    IF p.id \in recorded THEN {p.body[a]}
    ELSE CASE ActionOf(p, a) = "create" -> {p.body[a]}
           [] ActionOf(p, a) = "replace" -> {p.orig[a], p.body[a]}
           [] OTHER -> {p.orig[a]}

\* What the preflight accepts of a file.
Expected(p, a) ==
    IF p.id \in recorded THEN {p.body[a]}
    ELSE CASE ActionOf(p, a) = "create" -> {None, p.body[a]}
           [] ActionOf(p, a) = "replace" -> {p.orig[a], p.body[a]}
           [] OTHER -> {p.orig[a]}

Valid(p) == \A a \in Selected(p) : file[a] \in Expected(p, a)

\* Mutant: the row is not looked for.
PreflightBlind ==
    /\ pc = "preflight"
    /\ IF ~Valid(now) THEN Leave(IF serving THEN "idle" ELSE "down") /\ UNCHANGED stale
       ELSE /\ stale' = stale \ Selected(now)
            /\ back' = TRUE /\ Goto("publishing")
            /\ done' = {a \in Artifacts : file[a] = now.orig[a]}
            /\ NoSwap /\ UNCHANGED now
    /\ UNCHANGED <<exchange, disk, preview, serving, todo, count, history>>

Preflight ==
    /\ pc = "preflight"
    /\ IF ~Valid(now) THEN Leave(IF serving THEN "idle" ELSE "down") /\ UNCHANGED stale
       ELSE /\ stale' = stale \ Selected(now)
            /\ NoSwap /\ UNCHANGED now
            /\ IF now.id \in recorded
               THEN Goto("tidying") /\ UNCHANGED <<back, done>>
               ELSE /\ back' = TRUE /\ Goto("publishing")
                    /\ done' = {a \in Artifacts : file[a] = now.orig[a]}
    /\ UNCHANGED <<exchange, disk, preview, serving, todo, count, history>>

\* verify_journal_original_state
RolledBack ==
    /\ Working /\ back /\ Left = {}
    /\ IF \A a \in Selected(now) : file[a] = now.orig[a]
       THEN Goto("tidying") /\ UNCHANGED step
       ELSE Abort
    /\ UNCHANGED <<exchange, disk, preview, serving, todo, stale, count, history>>

\* Mutant: the journal goes before the temporary files.
TidyLast ==
    /\ pc = "tidying"
    /\ journals' = journals \ {now}
    /\ Goto("removing")
    /\ UNCHANGED <<exchange, file, aside, recorded, preview, serving, step, todo, stale, count,
                   history>>

\* cleanup_artifact_temporaries
Tidy ==
    /\ pc = "tidying"
    /\ aside' = [a \in Artifacts |-> IF a \in Selected(now) THEN {} ELSE aside[a]]
    /\ Goto("removing")
    /\ UNCHANGED <<exchange, file, journals, recorded, preview, serving, step, todo, stale, count,
                   history>>

\* The journal is removed; at a start the next one follows.
Recovered ==
    /\ pc = "removing"
    /\ journals' = journals \ {now}
    /\ Leave(IF serving THEN "idle" ELSE "loading")
    /\ UNCHANGED <<exchange, file, aside, recorded, preview, serving, todo, stale, count, history>>

RecoveryFails ==
    /\ pc \in {"preflight", "tidying", "removing"}
    /\ Leave(IF serving THEN "idle" ELSE "down")
    /\ UNCHANGED <<exchange, disk, preview, serving, todo, stale, count, history>>

--------------------------------------------------------------------------------
\* Start, crash, and the others.

\* __init__, at the start of the service and again with every request until it succeeds.
StartUp ==
    /\ pc = "down"
    /\ todo' = journals
    /\ Goto("loading")
    /\ UNCHANGED <<exchange, disk, preview, serving, step, stale, count, history>>

NextJournal ==
    /\ pc = "loading"
    /\ IF todo = {} THEN serving' = TRUE /\ Goto("idle") /\ UNCHANGED <<todo, now>>
       ELSE \E p \in todo : /\ now' = p /\ todo' = todo \ {p} /\ Goto("preflight")
                            /\ UNCHANGED serving
    /\ UNCHANGED <<exchange, disk, preview, back, done, at, held, matches, stale, count, history>>

Crash ==
    /\ pc # "down"
    /\ serving' = FALSE /\ preview' = NoPlan /\ todo' = {}
    /\ Leave("down")
    /\ unnoticed' = (unnoticed \/ (pc = "exchanged" /\ ~matches))
    /\ UNCHANGED <<exchange, disk, stale, count, sees, unseen, touched, overlapped>>

\* Somebody else writes or deletes a file, by renaming another one to its name; never
\* by chance what a publication under way proposes for it.
Foreign(a, b) ==
    /\ foreign < MaxForeign /\ foreign' = foreign + 1
    /\ \A p \in journals \cup {now} : a \in Selected(p) => b # p.body[a]
    /\ file' = [file EXCEPT ![a] = b]
    /\ stale' = stale \cup {a}
    /\ sees' = [sees EXCEPT ![a] = b]
    /\ unseen' = [unseen EXCEPT ![a] = b]
    /\ touched' = (touched \/ \E p \in journals \cup {now} : a \in Selected(p))
    /\ UNCHANGED <<exchange, aside, journals, recorded, preview, serving, pc, step, todo, begun,
                   overlapped, unnoticed>>

Publish ==
    \/ Preview \/ Begin \/ Check \/ PersistJournal \/ PersistFails
    \/ \E a \in Artifacts : \/ Unchanged(a) \/ Create(a) \/ Uncreate(a) \/ Exchange(a) \/ Look(a)
    \/ Copy \/ CopyFails \/ Accept \/ GiveBack \/ GiveBackFails \/ Replace \/ Verify \/ Fails
    \/ Record \/ RemoveJournal

Recover == Preflight \/ RolledBack \/ Tidy \/ Recovered \/ RecoveryFails

Next ==
    \/ Publish \/ Recover \/ StartUp \/ NextJournal \/ Crash
    \/ \E a \in Artifacts, b \in Whole : Foreign(a, b)

Spec == Init /\ [][Next]_vars

--------------------------------------------------------------------------------
\* Properties.

\* All or nothing: when the lock is free and no journal is left, every file holds what was
\* last recorded for it or written by others, whatever failed, crashed and was recovered
\* in between.  Not so when publications have overlapped, a later one writing its files
\* beside the journal of one that is not resolved, or when a write by others was missed.
AllOrNothing ==
    pc = "idle" /\ journals = {} /\ ~overlapped /\ ~unnoticed => file = sees

\* A publication can be recovered from also in the midst of its files and of an earlier
\* recovery: the preflight refuses only what others have done, and a file to be created
\* whose copy was cut short.  That one it does refuse, now and at every later start.
CutShort(p, a) == p.id \notin recorded /\ ActionOf(p, a) = "create" /\ file[a] = Partial
Recoverable(p) == \A a \in Selected(p) : file[a] \in Expected(p, a) \/ CutShort(p, a)
JournalCanBeRecovered ==
    ~touched /\ ~overlapped => \A p \in journals : Recoverable(p)

\* What others wrote since the last preview is never lost: it has its name, or stands aside,
\* unless a crash or an error came between the exchange and the look at what it gave.
UnseenIsKept ==
    ~unnoticed => \A a \in Artifacts :
        unseen[a] # None => unseen[a] \in {file[a]} \cup aside[a]
================================================================================
