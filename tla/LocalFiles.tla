------------------------------ MODULE LocalFiles -------------------------------
(***************************************************************************)
(* The client's two files on disk: internal/clientstate/store.go under the *)
(* commands of internal/clientapp/app.go.                                  *)
(*                                                                         *)
(* atomicWriteFile makes a temporary file in the target's directory,       *)
(* writes it, syncs it and renames it over the target.  A command may be   *)
(* killed, or fail, between any two of these; the machine may lose power.  *)
(* The directory is not synced, so a power loss may undo renames.          *)
(*                                                                         *)
(* Assumed of the file system (external): both files are on one volume, as *)
(* by default, and its journal keeps renames in their order; a file's data *)
(* reaches the disk at any time after it is written, at the latest when it *)
(* is synced; an open file stays readable after another takes its name.    *)
(***************************************************************************)
EXTENDS Integers, Sequences

CONSTANTS
    Procs,     \* commands that may run at a time
    Scripts,   \* Scripts[p]: the commands p may be, each its file operations in order
    MaxFiles,  \* bound: files ever created
    MaxRev     \* bound: revisions

Paths == {"state", "vault"}

(* How the revision a save stands for comes about: it is the one loaded,   *)
(* the one the server answered, or 0 for a new user.                       *)
Sources == {"kept", "answer", "zero"}

Load(x) == [op |-> "load", path |-> x, rev |-> "kept"]
Save(x, source) == [op |-> "save", path |-> x, rev |-> source]
Ops == [op : {"load", "save"}, path : Paths, rev : Sources]

ASSUME ScriptsAssumption == \A p \in Procs : Scripts[p] \subseteq Seq(Ops)
ASSUME BoundsAssumption == MaxFiles \in Nat /\ MaxRev \in Nat

VARIABLES
    made,    \* number of files created; they are called 1 .. made
    cached,  \* cached[f]: how much of f has been written
    stored,  \* stored[f]: how much of that is on the disk
    rev,     \* rev[f]: the revision f stands for
    past,    \* the directory: on disk, then after each rename since
    pc,      \* pc[p]: "idle", or the step of the present operation
    todo,    \* todo[p]: the operations left, the present one first
    temp,    \* temp[p]: the temporary file, 0 if none
    opened,  \* opened[p]: the file being read, 0 if none
    seen,    \* seen[p][x]: the revision of file x as p loaded it
    answer   \* answer[p]: the revision of the server's answer

disk == <<made, cached, stored, rev, past>>
memory == <<temp, opened, seen, answer>>
vars == <<made, cached, stored, rev, past, pc, todo, temp, opened, seen, answer>>

Files == 1 .. MaxFiles
Amounts == {"none", "part", "whole"}
NoFiles == [x \in Paths |-> 0]
Now == past[Len(past)]
RevOf(f) == IF f = 0 THEN 0 ELSE rev[f]

(* The commands, each after PersistentPreRunE's LoadState.                 *)
ListScript   == <<Load("state"), Load("vault")>>
GetScript    == <<Load("state"), Load("vault"), Load("state")>>
SetScript    == <<Load("state"), Load("state"), Load("vault"), Save("vault", "kept")>>
DeleteScript == <<Load("state"), Load("vault"), Save("vault", "kept")>>

(* Fault: the state is saved before the vault.                             *)
SyncPart_StateFirst ==
    <<Load("state"), Load("vault"), Save("state", "answer"), Save("vault", "answer")>>

SyncPart == <<Load("state"), Load("vault"), Save("vault", "answer"), Save("state", "answer")>>

SyncScript == <<Load("state")>> \o SyncPart

(* Login as the user who was logged in, and as another.                    *)
AgainScript  == <<Load("state"), Load("state"), Save("state", "kept")>> \o SyncPart
SwitchScript ==
    <<Load("state"), Load("state"), Save("vault", "zero"), Save("state", "zero")>> \o SyncPart

Init ==
    /\ made = 0
    /\ cached = [f \in Files |-> "none"]
    /\ stored = [f \in Files |-> "none"]
    /\ rev = [f \in Files |-> 0]
    /\ past = <<NoFiles>>
    /\ pc = [p \in Procs |-> "idle"]
    /\ todo = [p \in Procs |-> <<>>]
    /\ temp = [p \in Procs |-> 0]
    /\ opened = [p \in Procs |-> 0]
    /\ seen = [p \in Procs |-> NoFiles]
    /\ answer = [p \in Procs |-> 0]

Go(p, step) == pc' = [pc EXCEPT ![p] = step]

(* The present operation is over; after the last the process is.           *)
Done(p) ==
    /\ todo' = [todo EXCEPT ![p] = Tail(@)]
    /\ Go(p, IF Len(todo[p]) = 1 THEN "idle" ELSE "ready")

(* What the process knows once it loaded the files with revisions known    *)
(* and the server answered n; nothing, if it ends here.                    *)
Learn(p, known, n) ==
    IF Len(todo[p]) = 1
    THEN /\ seen' = [seen EXCEPT ![p] = NoFiles]
         /\ answer' = [answer EXCEPT ![p] = 0]
    ELSE /\ seen' = [seen EXCEPT ![p] = known]
         /\ answer' = [answer EXCEPT ![p] = n]

Start(p) ==
    /\ pc[p] = "idle"
    /\ \E script \in Scripts[p] :
        /\ script # <<>>
        /\ todo' = [todo EXCEPT ![p] = script]
    /\ Go(p, "ready")
    /\ UNCHANGED <<disk, memory>>

-----------------------------------------------------------------------------
(* LoadState and LoadVault: os.ReadFile opens and reads.  Without a file   *)
(* the load is of an empty state or vault.                                 *)

Open(p) ==
    /\ pc[p] = "ready"
    /\ Head(todo[p]).op = "load"
    /\ opened' = [opened EXCEPT ![p] = Now[Head(todo[p]).path]]
    /\ Go(p, "read")
    /\ UNCHANGED <<disk, todo, temp, seen, answer>>

(* What the server would answer to a sync from a loaded state is chosen    *)
(* here; it is not older than the state.                                   *)
Read(p) ==
    LET x == Head(todo[p]).path
        n == RevOf(opened[p])
    IN
    /\ pc[p] = "read"
    /\ \E m \in 0 .. MaxRev :
        /\ IF x = "state" THEN m >= n ELSE m = answer[p]
        /\ Learn(p, [seen[p] EXCEPT ![x] = n], m)
    /\ opened' = [opened EXCEPT ![p] = 0]
    /\ Done(p)
    /\ UNCHANGED <<disk, temp>>

-----------------------------------------------------------------------------
(* atomicWriteFile.                                                        *)

(* Fault: the revision saved is the one to come.                           *)
SavedRev_Next(p) ==
    IF Head(todo[p]).rev = "answer" THEN answer[p] + 1 ELSE seen[p]["state"] + 1

(* The revision the content stands for.  Rows newer than the answer that   *)
(* are in the vault stay there.                                            *)
SavedRev(p) ==
    LET o == Head(todo[p]) IN
    CASE o.rev = "zero" -> 0
      [] o.rev = "kept" -> seen[p][o.path]
      [] o.rev = "answer" ->
            IF o.path = "vault" /\ seen[p]["vault"] > answer[p] THEN seen[p]["vault"] ELSE answer[p]

(* Fault: the target itself is made anew and written.                     *)
CreateTemp_InPlace(p) ==
    LET f == made + 1 IN
    /\ pc[p] = "ready"
    /\ Head(todo[p]).op = "save"
    /\ f =< MaxFiles
    /\ made' = f
    /\ rev' = [rev EXCEPT ![f] = SavedRev(p)]
    /\ temp' = [temp EXCEPT ![p] = f]
    /\ past' = Append(past, [Now EXCEPT ![Head(todo[p]).path] = f])
    /\ Go(p, "write")
    /\ UNCHANGED <<cached, stored, todo, opened, seen, answer>>

(* CreateTemp and Chmod: a file of a name nobody has.                      *)
CreateTemp(p) ==
    LET f == made + 1 IN
    /\ pc[p] = "ready"
    /\ Head(todo[p]).op = "save"
    /\ f =< MaxFiles
    /\ made' = f
    /\ rev' = [rev EXCEPT ![f] = SavedRev(p)]
    /\ temp' = [temp EXCEPT ![p] = f]
    /\ Go(p, "write")
    /\ UNCHANGED <<cached, stored, past, todo, opened, seen, answer>>

(* Write, piece by piece.                                                  *)
WriteSome(p) ==
    /\ pc[p] = "write"
    /\ cached' = [cached EXCEPT ![temp[p]] = "part"]
    /\ Go(p, "more")
    /\ UNCHANGED <<made, stored, rev, past, todo, memory>>

WriteRest(p) ==
    /\ pc[p] = "more"
    /\ cached' = [cached EXCEPT ![temp[p]] = "whole"]
    /\ Go(p, "sync")
    /\ UNCHANGED <<made, stored, rev, past, todo, memory>>

(* Fault: the file is not synced.                                          *)
Sync_Skipped(p) ==
    /\ pc[p] = "sync"
    /\ Go(p, "rename")
    /\ UNCHANGED <<disk, todo, memory>>

(* Sync and Close.                                                         *)
Sync(p) ==
    /\ pc[p] = "sync"
    /\ stored' = [stored EXCEPT ![temp[p]] = cached[temp[p]]]
    /\ Go(p, "rename")
    /\ UNCHANGED <<made, cached, rev, past, todo, memory>>

Rename(p) ==
    /\ pc[p] = "rename"
    /\ past' = Append(past, [Now EXCEPT ![Head(todo[p]).path] = temp[p]])
    /\ temp' = [temp EXCEPT ![p] = 0]
    /\ Learn(p, seen[p], answer[p])
    /\ Done(p)
    /\ UNCHANGED <<made, cached, stored, rev, opened>>

-----------------------------------------------------------------------------
(* An error return at any step, or the process is killed.  A temporary     *)
(* file stays behind.                                                      *)
Stop(p) ==
    /\ pc[p] # "idle"
    /\ Go(p, "idle")
    /\ todo' = [todo EXCEPT ![p] = <<>>]
    /\ temp' = [temp EXCEPT ![p] = 0]
    /\ opened' = [opened EXCEPT ![p] = 0]
    /\ seen' = [seen EXCEPT ![p] = NoFiles]
    /\ answer' = [answer EXCEPT ![p] = 0]
    /\ UNCHANGED disk

(* The kernel writes back a file, or the oldest rename.                    *)
Flush ==
    /\ \E f \in 1 .. made : stored' = [stored EXCEPT ![f] = cached[f]]
    /\ UNCHANGED <<made, cached, rev, past, pc, todo, memory>>

Settle ==
    /\ Len(past) > 1
    /\ past' = Tail(past)
    /\ UNCHANGED <<made, cached, stored, rev, pc, todo, memory>>

PowerLoss ==
    /\ cached' = stored
    /\ past' = <<Head(past)>>
    /\ pc' = [p \in Procs |-> "idle"]
    /\ todo' = [p \in Procs |-> <<>>]
    /\ temp' = [p \in Procs |-> 0]
    /\ opened' = [p \in Procs |-> 0]
    /\ seen' = [p \in Procs |-> NoFiles]
    /\ answer' = [p \in Procs |-> 0]
    /\ UNCHANGED <<made, stored, rev>>

Step(p) ==
    \/ Start(p) \/ Open(p) \/ Read(p)
    \/ CreateTemp(p) \/ WriteSome(p) \/ WriteRest(p) \/ Sync(p) \/ Rename(p)
    \/ Stop(p)

Next == (\E p \in Procs : Step(p)) \/ Flush \/ Settle \/ PowerLoss

Spec == Init /\ [][Next]_vars

-----------------------------------------------------------------------------

TypeOK ==
    /\ made \in 0 .. MaxFiles
    /\ cached \in [Files -> Amounts] /\ stored \in [Files -> Amounts]
    /\ rev \in [Files -> 0 .. MaxRev]
    /\ past \in Seq([Paths -> 0 .. made]) /\ past # <<>>
    /\ pc \in [Procs -> {"idle", "ready", "read", "write", "more", "sync", "rename"}]
    /\ todo \in [Procs -> Seq(Ops)]
    /\ temp \in [Procs -> 0 .. made] /\ opened \in [Procs -> 0 .. made]
    /\ seen \in [Procs -> [Paths -> 0 .. MaxRev]] /\ answer \in [Procs -> 0 .. MaxRev]

(* Whatever stopped and whenever, the state and the vault are whole, now   *)
(* and after a power loss at this moment; so is a file that is being read, *)
(* while others replace it.  A torn file would be a JSON error that no     *)
(* command gets past.                                                      *)
Whole(f) == f # 0 => cached[f] = "whole" /\ stored[f] = "whole"

NeverTorn ==
    /\ \A k \in 1 .. Len(past), x \in Paths : Whole(past[k][x])
    /\ \A p \in Procs : Whole(opened[p])

(* With one account, and one command at a time that saves, LastSyncedRev   *)
(* is not ahead of the vault, now or after a power loss: the order of the  *)
(* two saves survives although neither rename is synced.                   *)
StateNotAhead ==
    \A k \in 1 .. Len(past) : RevOf(past[k]["state"]) =< RevOf(past[k]["vault"])

(* The files are atomic cells: FileCells with a file's number for its      *)
(* content if it is whole; None and a torn file are told apart from those. *)
Content(f) ==
    IF f = 0 THEN 0
    ELSE IF cached[f] = "whole" /\ stored[f] = "whole" THEN f
    ELSE -1

ContentsPast == [k \in 1 .. Len(past) |-> [x \in Paths |-> Content(past[k][x])]]

AsCells == INSTANCE FileCells WITH past <- ContentsPast, Values <- Files, None <- 0

ImplementsFileCells == AsCells!Spec
=============================================================================
