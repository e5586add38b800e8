----------------------------- MODULE SharedFiles -----------------------------
(***************************************************************************)
(* What the file manager promises, without locks, temporary files, partial *)
(* writes or a server that ends: a directory of complete files that never  *)
(* change.  A name gets a file in one step, only if it is free; only other *)
(* programs take one away.  A download reads one such file as a whole,     *)
(* whatever happens to its name meanwhile.                                 *)
(***************************************************************************)
EXTENDS Integers

CONSTANTS
    Names,     \* shared filenames
    Readers,   \* those who download
    Ids,       \* identities of files
    Sizes,     \* sizes of files
    None       \* no file

VARIABLES
    files,     \* name -> the file it has, or None
    reading    \* reader -> the file it downloads, or None

vars == <<files, reading>>

\* size is what was promised, len what is there.
Files == [id : Ids, regular : BOOLEAN, size : Sizes, len : Sizes]
Complete == {f \in Files : f.len = f.size}

Init ==
    /\ files = [n \in Names |-> None]
    /\ reading = [r \in Readers |-> None]

\* A complete file appears under a free name.
Publish(n) ==
    /\ files[n] = None
    /\ files'[n] \in Complete
    /\ files' = [files EXCEPT ![n] = files'[n]]
    /\ reading' = reading

\* Another program removes a file.
Remove(n) ==
    /\ files' = [files EXCEPT ![n] = None]
    /\ reading' = reading

\* A download takes the file that has the name now ...
Open(r, n) ==
    /\ reading[r] = None
    /\ files[n] \in Complete /\ files[n].regular
    /\ reading' = [reading EXCEPT ![r] = files[n]]
    /\ files' = files

\* ... and ends, or all of them do with the server.
Close(r) ==
    /\ reading' = [reading EXCEPT ![r] = None]
    /\ files' = files

CloseAll ==
    /\ reading' = [r \in Readers |-> None]
    /\ files' = files

Next ==
    \/ \E n \in Names : Publish(n) \/ Remove(n)
    \/ \E r \in Readers : Close(r) \/ \E n \in Names : Open(r, n)
    \/ CloseAll

Spec == Init /\ [][Next]_vars
=============================================================================
