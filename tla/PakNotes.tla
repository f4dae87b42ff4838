------------------------------ MODULE PakNotes ------------------------------
(* A game is saved as a note of the controller pak.  Pak_SaveNoteVerified  *)
(* writes the note, reads it back and, when it differs, deletes it and     *)
(* tries again, four times in all.  Writing, reading and deleting each     *)
(* hold gPakAccessQueue (module Controllers), so that the calls to the     *)
(* pak's file system are steps of one thread; between them the player may  *)
(* pull out the pak or put in another, and any call may fail or write      *)
(* what cannot be read back.  What is known of the pak, its file system    *)
(* and its notes, is what Pak_Mount has read last; a note that it could    *)
(* not read keeps the name it had before.                                  *)
(* A name stands for the codes, the name and the letter of a note.  A pak  *)
(* has room for a note whenever it has a free one.  The notes a player     *)
(* deletes in the pak's menus are not modelled.                            *)
EXTENDS Integers, FiniteSets

CONSTANTS
    Paks,       \* the paks of the player
    Rumble,     \* a rumble pak
    Nothing,    \* no pak
    Files,      \* the notes of a pak (16)
    Names,      \* what notes may be called (a save differs in its letter)
    MaxFaults   \* bound: failing calls, and paks pulled during a save

ASSUME PakAssumption ==
    /\ Rumble \notin Paks /\ Nothing \notin Paks \cup {Rumble}
    /\ Nothing \notin Names
    /\ IsFiniteSet(Files) /\ MaxFaults \in Nat

Tries == 4

\* Mutant: a note that cannot be read is not tried again.
NoteTries_Once == 1

\* How often a note is asked for before its old name is kept.
NoteTries == 2

\* What a note holds: nothing, another save, this one, or this one damaged.
Contents == {"none", "other", "good", "bad"}

VARIABLES
    slot,      \* what is plugged into the controller
    note,      \* what the notes of each pak hold
    name,      \* and what they are called, Nothing where there is none
    mounted,   \* gPakFileSystems: the pak it was read from
    listed,    \* gPakDirectories: the names as they were read last
    pakState,  \* gPakState: 1 no pak, 2 a rumble pak, 3 a controller pak
    pakError,  \* gPakError: 0, or -2 no pak, -3 unreadable, -4 to be repaired
    save,      \* where the main thread is, and the note it writes
    faults     \* the faults to come

pakVars == <<slot, note, name, mounted, listed, pakState, pakError, save, faults>>

Unused(pak) == {f \in Files : note[pak][f] = "none"}

\* The file system looks for a note by its name.
Named(pak, n) == {f \in Files : name[pak][f] = n}

Idle == [at |-> "idle", tries |-> 0, name |-> Nothing, pak |-> Nothing, file |-> Nothing, result |-> 0]

PakInit ==
    /\ slot \in Paks \cup {Rumble, Nothing}
    /\ note \in [Paks -> [Files -> {"none", "other"}]]
    /\ name \in [Paks -> [Files -> Names \cup {Nothing}]]
    /\ \A p \in Paks, f \in Files :
         /\ note[p][f] = "none" <=> name[p][f] = Nothing
         /\ \A g \in Files \ {f} : name[p][f] = name[p][g] => name[p][f] = Nothing
    /\ mounted = Nothing /\ listed = [f \in Files |-> Nothing]
    /\ pakState = 1 /\ pakError = 0
    /\ save = Idle /\ faults = MaxFaults

-----------------------------------------------------------------------------
(* The paks and their file system.                                         *)

At(at)     == save.at = at
GoTo(at)   == save' = [save EXCEPT !.at = at]
Fail(n)    == faults >= n /\ faults' = faults - n
NoFault    == UNCHANGED faults
Between    == save.at \in {"idle", "write", "verify", "erase"}

\* The file system answers for the pak it was mounted from, and no other.
Reached == slot \in Paks /\ slot = mounted

Put(pak, f, content, n) ==
    /\ note' = [note EXCEPT ![pak][f] = content]
    /\ name' = [name EXCEPT ![pak][f] = n]

Delete(pak, n) == \E f \in Named(pak, n) : Put(pak, f, "none", Nothing)

Untouched == UNCHANGED <<note, name>>

\* A pak can be pulled out at any time, but another cannot be put in while
\* the lock is held, which is for a fraction of a second.
Pull ==
    /\ slot # Nothing /\ slot' = Nothing
    /\ ~At("told")
    /\ IF At("idle") THEN NoFault ELSE Fail(1)
    /\ UNCHANGED <<note, name, mounted, listed, pakState, pakError, save>>

Insert ==
    /\ slot = Nothing /\ Between
    /\ slot' \in Paks \cup {Rumble}
    /\ UNCHANGED <<note, name, mounted, listed, pakState, pakError, save, faults>>

-----------------------------------------------------------------------------
(* Pak_Mount.  The file system's calls are tried again here, four times    *)
(* for the pak and twice for each note.  A note that cannot be read keeps  *)
(* its old name, and the pak counts as mounted; only the free space, which *)
(* is read last, decides that.  gPakState is 3 wherever this is called but *)
(* in Pak_ProbeSlot, which sets it from the result.                        *)

\* Pak_RefreshNotes, where the notes of `kept' cannot be read.
Refresh(kept) ==
    /\ mounted' = slot
    /\ listed' = [f \in Files |-> IF f \in kept THEN listed[f] ELSE name[slot][f]]

Mounts ==
    /\ slot \in Paks
    /\ \E kept \in SUBSET Files :
         /\ Refresh(kept)
         /\ \/ pakError' = 0 /\ Fail(NoteTries * Cardinality(kept))
            \/ pakError' = -4 /\ Fail(NoteTries * Cardinality(kept) + 1)
    /\ UNCHANGED slot

\* The pak is pulled out while its notes are read.
MountsPulled ==
    /\ slot \in Paks
    /\ \E kept \in SUBSET Files : Refresh(kept)
    /\ pakError' = -4 /\ Fail(1) /\ slot' = Nothing

MountsNot ==
    /\ \/ slot = Nothing /\ pakError' = -2 /\ NoFault
       \/ slot = Rumble /\ pakError' = -3 /\ NoFault
       \/ slot \in Paks /\ pakError' \in {-3, -4} /\ Fail(4)
    /\ UNCHANGED <<slot, mounted, listed>>

Pak_Mount == Mounts \/ MountsPulled \/ MountsNot

-----------------------------------------------------------------------------
(* What the menus ask for before they save.                                *)

Pak_ProbeSlot ==
    /\ At("idle")
    /\ \/ slot = Rumble /\ pakState' = 2 /\ UNCHANGED <<slot, mounted, listed, pakError, faults>>
       \/ slot # Rumble /\ Pak_Mount /\ pakState' = IF pakError' \in {0, -4} THEN 3 ELSE 1
    /\ Untouched /\ UNCHANGED save

\* Pak_RepairIfDamaged, and Pak_Repair, which does not ask for the damage.
Pak_Repair ==
    /\ At("idle") /\ pakState = 3
    /\ Pak_Mount
    /\ Untouched /\ UNCHANGED <<pakState, save>>

\* The menu asks for free space, a free note and a letter that no note has, as
\* the directory has them.
PakMenu_WriteSaveGame ==
    /\ At("idle") /\ pakState = 3 /\ pakError = 0
    /\ \E f \in Files : listed[f] = Nothing
    /\ \E n \in Names :
         /\ \A f \in Files : listed[f] # n
         /\ save' = [save EXCEPT !.at = "write", !.tries = 1, !.name = n]
    /\ UNCHANGED <<slot, note, name, mounted, listed, pakState, pakError, faults>>

-----------------------------------------------------------------------------
(* Pak_WriteNote.                                                          *)

Tell(result) == save' = [save EXCEPT !.at = "told", !.result = result]

FileCall == UNCHANGED <<slot, mounted, listed, pakState, pakError>>

\* A call that the pak does not answer.
Fails == IF Reached THEN Fail(1) ELSE NoFault

Pak_WriteNote ==
    /\ At("write")
    /\ IF pakState # 3 THEN Tell(-2)
       ELSE IF pakError # 0 THEN Tell(pakError) ELSE GoTo("allocate")
    /\ FileCall /\ Untouched /\ NoFault

\* A name the pak has is refused.
Allocate ==
    /\ At("allocate") /\ Reached /\ NoFault
    /\ Named(slot, save.name) = {}
    /\ \E f \in Unused(slot) :
         /\ Put(slot, f, "bad", save.name)
         /\ save' = [save EXCEPT !.at = "data", !.pak = slot, !.file = f]
    /\ FileCall

AllocateFails ==
    /\ At("allocate")
    /\ \/ Fails
       \/ Reached /\ (Unused(slot) = {} \/ Named(slot, save.name) # {}) /\ NoFault
    /\ save' = [save EXCEPT !.at = "mount", !.result = -1]
    /\ FileCall /\ Untouched

WriteData ==
    /\ At("data") /\ Reached
    /\ \/ Put(slot, save.file, "good", save.name) /\ NoFault
       \/ Untouched /\ Fail(1)
    /\ GoTo("mount")
    /\ FileCall

WriteDataFails ==
    /\ At("data") /\ Fails
    /\ save' = [save EXCEPT !.at = "undo", !.result = -1]
    /\ FileCall /\ Untouched

Undo ==
    /\ At("undo")
    /\ \/ Reached /\ Delete(slot, save.name) /\ NoFault
       \/ Fails /\ Untouched
    /\ GoTo("mount")
    /\ FileCall

WriteEnds ==
    /\ At("mount") /\ Pak_Mount
    /\ GoTo(IF save.result = 0 THEN "verify" ELSE "told")
    /\ Untouched /\ UNCHANGED pakState

-----------------------------------------------------------------------------
(* The rest of Pak_SaveNoteVerified: the note is read back, and deleted    *)
(* unless it is what was written.                                          *)

\* Mutant: what is read is not compared.
ReadsBack_Unseen == pakState = 3 /\ pakError = 0 /\ Reached /\ save.file \notin Unused(slot)

ReadsBack == pakState = 3 /\ pakError = 0 /\ Reached /\ note[slot][save.file] = "good"

ReadNote ==
    /\ At("verify")
    /\ \/ ReadsBack /\ Tell(0) /\ NoFault
       \/ ReadsBack /\ GoTo("erase") /\ Fail(1)
       \/ ~ReadsBack /\ GoTo("erase") /\ NoFault
    /\ FileCall /\ Untouched

CanErase == pakState = 3 /\ pakError = 0

\* What is deleted is what has the name that the directory has for the file.
Pak_DeleteNote ==
    /\ At("erase") /\ CanErase
    /\ listed[save.file] # Nothing
    /\ Reached /\ Delete(slot, listed[save.file]) /\ NoFault
    /\ GoTo("erased")
    /\ FileCall

Pak_DeleteNoteFails ==
    /\ At("erase") /\ CanErase
    /\ \/ Fails
       \/ listed[save.file] = Nothing /\ NoFault
       \/ Reached /\ Named(slot, listed[save.file]) = {} /\ NoFault
    /\ GoTo("kept")
    /\ FileCall /\ Untouched

\* The result is that of the last write, whatever became of the note.
Pak_DeleteNoteRefuses ==
    /\ At("erase") /\ ~CanErase
    /\ Tell(save.result)
    /\ FileCall /\ Untouched /\ NoFault

TriesAgain == save.at = "erased" /\ save.tries < Tries

DeleteEnds ==
    /\ save.at \in {"erased", "kept"} /\ Pak_Mount
    /\ IF TriesAgain THEN save' = [save EXCEPT !.at = "write", !.tries = @ + 1]
       ELSE Tell(save.result)
    /\ Untouched /\ UNCHANGED pakState

\* The player reads whether the game is saved; the note is one more.
Message ==
    /\ At("told") /\ save' = Idle
    /\ note' = [p \in Paks |-> [f \in Files |-> IF note[p][f] = "none" THEN "none" ELSE "other"]]
    /\ FileCall /\ UNCHANGED name /\ NoFault

-----------------------------------------------------------------------------
PakNext ==
    \/ Pull \/ Insert
    \/ Pak_ProbeSlot \/ Pak_Repair \/ PakMenu_WriteSaveGame
    \/ Pak_WriteNote \/ Allocate \/ AllocateFails \/ WriteData \/ WriteDataFails \/ Undo \/ WriteEnds
    \/ ReadNote \/ Pak_DeleteNote \/ Pak_DeleteNoteFails \/ Pak_DeleteNoteRefuses \/ DeleteEnds
    \/ Message

PakSpec == PakInit /\ [][PakNext]_pakVars

-----------------------------------------------------------------------------
(* Properties.                                                             *)

Spent == MaxFaults - faults

\* With fewer than five faults a save, its retries and the deletions never cost
\* the player a note that was on a pak before, whichever pak is put in: to delete
\* another note, the name the directory has for the new one must be wrong before
\* and after the note is written, which takes two failing calls each, and the note
\* must not read back.
OthersKept ==
    [][MaxFaults - faults' < 5 =>
         \A p \in Paks, f \in Files : note[p][f] = "other" => note'[p][f] = "other"]_pakVars

\* "Saves data as a note on the pak on channel ch and reads it back to verify it,
\* up to four times." (us/code/func_00426164.c): when the player is told that the
\* game is saved, the note is on the pak it was written to and can be read.
Kept == note[save.pak][save.file] = "good"

SavedMeansKept == At("told") /\ save.result = 0 => Kept

\* With one fault at most the message is true, and a save that fails leaves
\* nothing of it on the pak that is plugged in.
OneFaultSurvived ==
    At("told") /\ Spent <= 1 =>
        IF save.result = 0 THEN Kept
        ELSE slot \in Paks /\ save.pak = slot => note[slot][save.file] = "none"
=============================================================================
