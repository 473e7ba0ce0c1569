-------------------------- MODULE ResumableConvert --------------------------
(***************************************************************************)
(* `prqnt convert --state`: execute_resumable.  The files are converted    *)
(* one after the other into parts under <output>.staging, a checkpoint     *)
(* file records which are done, and the parts become the output when all   *)
(* are.  The process may die at every step, an input may be modified at    *)
(* any time, and the operator starts anew or with --resume.                *)
(*                                                                         *)
(* An error return ends the process like a crash: it leaves the files as   *)
(* they are.  The checkpoint is replaced by a rename.                      *)
(***************************************************************************)
EXTENDS ColumnarJobs, FiniteSetsExt

CONSTANTS MaxStarts     \* conversions started without --resume

ASSUME ResumableAssumption == MaxStarts \in Nat

VARIABLES format,    \* format of the output
          version,   \* modifications of each input so far
          holds,     \* whether each input has rows now
          kept,      \* whether it had when its conversion last opened it
          ckpt,      \* the checkpoint file
          staging,   \* the staging directory: a part or None for each input
          step,      \* what the process does next
          mem,       \* its ProcessingState
          joining,   \* the loop that joins parts: the next input, what is written so far
          starts,
          spoilt     \* history: a start died between clearing the staging directory and
                     \* replacing the checkpoint, or left a part there that is nobody's

diskVars == <<ckpt, staging, output>>
resumableVars == <<format, version, holds, kept, ckpt, staging, step, mem, joining, starts, spoilt>>

Header == <<0, 1>>
Torn == <<0, 2>>
NoParts == [f \in Files |-> None]

(* ProcessingState: the identity of the execution (of which the inputs'     *)
(* fingerprint can change here), the files with size and time as recorded   *)
(* by add_file, which of them are processed, and the commit flag.           *)
Checkpoints ==
    [ident : [Files -> Nat], files : [Files -> Nat] \cup {None}, done : SUBSET Files, committed : BOOLEAN]

(* What a staging directory holds: a part or None for each input. *)
Stagings == [Files -> Seq(Nat \X Nat) \cup {None}]

ASSUME CheckpointAssumption == None \notin Checkpoints /\ None \notin Stagings

ResumableInit ==
    /\ format \in Choice(route = "resumable", {"csv", "parquet"})
    /\ version = [f \in Files |-> 0]
    /\ holds = [f \in Files |-> total[f] > 0]
    /\ kept = holds
    /\ ckpt = None
    /\ staging = None
    /\ step = "idle"
    /\ mem = None
    /\ joining = None
    /\ starts = 0
    /\ spoilt = FALSE
-----------------------------------------------------------------------------
(* Nothing is processed yet. *)
NewState(recorded) == [ident |-> version, files |-> recorded, done |-> {}, committed |-> FALSE]

\* mutant: off by one
MoreThanAll(s) == Cardinality(s.done) > NumFiles

(* As many files are processed as there are. *)
IsComplete(s) == s.done = Files

(* The inputs the checkpoint describes are not the ones there are.          *)
VerifySourcesUnchanged(s) == s.files = version

IdentityMatches(s) == s.ident = version

(* Without --resume: fingerprint the inputs, then clear the staging         *)
(* directory, ignoring an error.                                            *)
StartFresh ==
    /\ step = "idle"
    /\ starts < MaxStarts
    /\ starts' = starts + 1
    /\ mem' = NewState(None)
    /\ \/ staging' = None /\ UNCHANGED faults
       \/ staging # None /\ Fault /\ UNCHANGED staging
    /\ step' = "fresh"
    /\ UNCHANGED <<format, version, holds, kept, ckpt, output, joining, spoilt>>

EnsureStaging == staging' = IF staging = None THEN NoParts ELSE staging

(* The inputs' metadata are read again for the checkpoint. *)
SaveFresh ==
    /\ step = "fresh"
    /\ mem' = [mem EXCEPT !.files = version]
    /\ ckpt' = mem'
    /\ EnsureStaging
    /\ step' = "parts"
    /\ spoilt' = FALSE
    /\ UNCHANGED <<format, version, holds, kept, output, joining, starts, faults>>

(* With --resume and a checkpoint that describes these inputs.  Everything  *)
(* else is refused, and a committed conversion returns at once; both leave  *)
(* no trace.                                                                *)
Resume ==
    /\ step = "idle"
    /\ ckpt # None
    /\ IdentityMatches(ckpt)
    /\ VerifySourcesUnchanged(ckpt)
    /\ ~(ckpt.committed /\ IsComplete(ckpt) /\ output # None)
    /\ mem' = ckpt
    /\ EnsureStaging
    /\ step' = "parts"
    /\ UNCHANGED <<format, version, holds, kept, ckpt, output, joining, starts, spoilt, faults>>
-----------------------------------------------------------------------------
Todo == Files \ mem.done

(* process_one_file_blocking: a CSV part exists as soon as the file is      *)
(* opened; a Parquet part only when there are rows.                         *)
HasPart(f) == format = "csv" \/ kept[f]

(* The header is written with the first batch. *)
PartOf(f) ==
    LET rows == IF kept[f] THEN << <<f, version[f]>> >> ELSE <<>>
    IN  IF format = "csv" /\ rows # <<>> THEN <<Header>> \o rows ELSE rows

BeginPart ==
    /\ step = "parts"
    /\ Todo # {}
    /\ LET f == Min(Todo)
       IN  /\ kept' = [kept EXCEPT ![f] = holds[f]]
           /\ staging' = [staging EXCEPT ![f] = IF format = "csv" \/ holds[f] THEN <<Torn>> ELSE @]
    /\ step' = "writing"
    /\ UNCHANGED <<format, version, holds, ckpt, output, mem, joining, starts, spoilt, faults>>

(* If nothing is written, what a failed removal left in the part's place    *)
(* stays and will be joined.                                                *)
FinishPart ==
    /\ step = "writing"
    /\ LET f == Min(Todo)
       IN  /\ staging' = [staging EXCEPT ![f] = IF HasPart(f) THEN PartOf(f) ELSE @]
           /\ mem' = [mem EXCEPT !.done = @ \cup {f}]
           /\ spoilt' = (spoilt \/ (~HasPart(f) /\ staging[f] # None))
    /\ step' = "saving"
    /\ UNCHANGED <<format, version, holds, kept, ckpt, output, joining, starts, faults>>

SaveProgress ==
    /\ step = "saving"
    /\ ckpt' = mem
    /\ step' = "parts"
    /\ UNCHANGED <<format, version, holds, kept, staging, output, mem, joining, starts, spoilt, faults>>
-----------------------------------------------------------------------------
(* finalize_staged_parts: the files found in the staging directory. *)
Staged == {f \in Files : staging[f] # None}

(* A single part is renamed to the output. *)
RenamePart ==
    /\ step = "parts"
    /\ IsComplete(mem)
    /\ \E f \in Files : Staged = {f} /\ output' = staging[f]
    /\ staging' = NoParts
    /\ step' = "commit"
    /\ UNCHANGED <<format, version, holds, kept, ckpt, mem, joining, starts, spoilt, faults>>

(* Several are joined, in the order of their names, into the output file,   *)
(* which is truncated first and incomplete until the end.                   *)
TruncateOutput ==
    /\ step = "parts"
    /\ IsComplete(mem)
    /\ Staged # {} /\ \A f \in Files : Staged # {f}
    /\ output' = <<Torn>>
    /\ joining' = [next |-> 1, content |-> <<>>]
    /\ step' = "joining"
    /\ UNCHANGED <<format, version, holds, kept, ckpt, staging, mem, starts, spoilt, faults>>

\* mutant: parts are joined with their headers
WholePart(part) == part

(* CSV parts but the first lose everything up to the first line break. *)
Body(part) == IF part = <<>> THEN <<>> ELSE Tail(part)

(* One turn of the loop. *)
Joined(f, content) ==
    IF staging[f] = None THEN content
    ELSE content \o IF format = "parquet" \/ \A g \in Staged : g >= f THEN staging[f] ELSE Body(staging[f])

JoinPart ==
    /\ step = "joining"
    /\ joining.next <= NumFiles
    /\ joining' = [next |-> joining.next + 1, content |-> Joined(joining.next, joining.content)]
    /\ UNCHANGED <<format, version, holds, kept, ckpt, staging, output, step, mem, starts, spoilt, faults>>

FinishJoin ==
    /\ step = "joining"
    /\ joining.next > NumFiles
    /\ output' = joining.content
    /\ joining' = None
    /\ step' = "commit"
    /\ UNCHANGED <<format, version, holds, kept, ckpt, staging, mem, starts, spoilt, faults>>

(* No staged part: an error. *)
NothingStaged ==
    /\ step = "parts"
    /\ IsComplete(mem)
    /\ Staged = {}
    /\ step' = "idle"
    /\ mem' = None
    /\ UNCHANGED <<format, version, holds, kept, ckpt, staging, output, joining, starts, spoilt, faults>>

Commit ==
    /\ step = "commit"
    /\ mem' = [mem EXCEPT !.committed = TRUE]
    /\ ckpt' = mem'
    /\ step' = "cleanup"
    /\ UNCHANGED <<format, version, holds, kept, staging, output, joining, starts, spoilt, faults>>

Cleanup ==
    /\ step = "cleanup"
    /\ \/ staging' = None /\ UNCHANGED faults
       \/ Fault /\ UNCHANGED staging
    /\ step' = "idle"
    /\ mem' = None
    /\ UNCHANGED <<format, version, holds, kept, ckpt, output, joining, starts, spoilt>>
-----------------------------------------------------------------------------
Interrupt ==
    /\ step # "idle"
    /\ Fault
    /\ step' = "idle"
    /\ mem' = None
    /\ joining' = None
    /\ spoilt' = (spoilt \/ (step = "fresh" /\ ckpt # None))
    /\ UNCHANGED <<format, version, holds, kept, diskVars, starts>>

(* An input is replaced by one with or without rows.                        *)
Modify(f) ==
    /\ Fault
    /\ version' = [version EXCEPT ![f] = @ + 1]
    /\ holds' \in {[holds EXCEPT ![f] = b] : b \in BOOLEAN}
    /\ UNCHANGED <<format, kept, diskVars, step, mem, joining, starts, spoilt>>

ProcessStep ==
    \/ SaveFresh \/ BeginPart \/ FinishPart \/ SaveProgress \/ RenamePart
    \/ TruncateOutput \/ JoinPart \/ FinishJoin \/ NothingStaged \/ Commit \/ Cleanup

ResumableNext ==
    /\ UNCHANGED inputVars
    /\ \/ StartFresh
       \/ Resume
       \/ ProcessStep
       \/ Interrupt
       \/ \E f \in Files : Modify(f)
=============================================================================
