---------------------------- MODULE MCFileClient ------------------------------
(***************************************************************************)
(* Instances of FileClient for TLC.                                        *)
(***************************************************************************)
EXTENDS FileClient

\* f has two copies; the copies that w asks for are as many as an unsigned can say.
WithWrap == {"f", "w"}

TaskPriority == [t \in Tasks |-> IF t = "f" THEN 0 ELSE 1]
TaskDuplication == [t \in Tasks |-> IF t = "f" THEN 1 ELSE Word - 1]
TaskId == [t \in Tasks |-> IF t = "f" THEN 1 ELSE 2]

\* The server of the low priority copies leaves out the first byte.
ServerStart == [c \in Copies |-> c[2]]

===============================================================================
