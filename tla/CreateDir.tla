----------------------------- MODULE CreateDir -----------------------------
(***************************************************************************)
(* zbaselib_createdir of zbaselib.c.  It goes down a path and creates what *)
(* is missing: it asks whether a name is there, and if it is not, makes a  *)
(* directory of it.  Several processes may do this at the same time in one *)
(* file system, and one may be faster than another between the two.        *)
(* Nobody removes anything.  A path is the sequence of its names.          *)
(***************************************************************************)
EXTENDS Integers, Sequences

CONSTANTS
    Callers,      \* the processes
    Targets       \* the paths that createdir is called with

Names == UNION {{path[i] : i \in DOMAIN path} : path \in Targets}

ASSUME CreateDirAssumption == Targets \subseteq Seq(Names) \ {<< >>}

VARIABLES
    dirs, files,  \* the paths in the file system
    making        \* the call of createdir that a process is in

createDirVars == <<dirs, files, making>>

-----------------------------------------------------------------------------
Prefix(path, i) == SubSeq(path, 1, i)
Prefixes(path)  == {Prefix(path, i) : i \in 1 .. Len(path)}
Parent(path)    == SubSeq(path, 1, Len(path) - 1)

NotMaking == [target |-> << >>, i |-> 0, step |-> "done", result |-> 0,
              refused |-> FALSE, overtaken |-> FALSE]

(* The path ends with a slash, or one is put there: the loop stops at each *)
(* slash but the first, and so at the end of each name.                    *)
NoSlash_LastName(path) == Len(path) - 1
LastName(path) == Len(path)

Call(p, path) ==
    /\ making[p].step = "done"
    /\ making' = [making EXCEPT ![p] =
                     [NotMaking EXCEPT !.target = path, !.i = 1, !.step = "access"]]
    /\ UNCHANGED <<dirs, files>>

(* The loop goes on with the next name.                                    *)
NextName(m) ==
    IF m.i >= LastName(m.target) THEN [m EXCEPT !.step = "done"]
    ELSE [m EXCEPT !.i = @ + 1, !.step = "access"]

Access(p) ==
    /\ making[p].step = "access"
    /\ making' = [making EXCEPT ![p] =
                     IF Prefix(@.target, @.i) \in dirs \cup files THEN NextName(@)
                     ELSE [@ EXCEPT !.step = "mkdir"]]
    /\ UNCHANGED <<dirs, files>>

(* mkdir refuses a name that is there, and one that is not in a directory. *)
CanMake(path) ==
    path \notin dirs \cup files /\ (Len(path) = 1 \/ Parent(path) \in dirs)

Mkdir(p) ==
    LET path == Prefix(making[p].target, making[p].i)
    IN  /\ making[p].step = "mkdir" /\ CanMake(path)
        /\ dirs' = dirs \cup {path}
        /\ making' = [q \in Callers |->
                         IF q = p THEN NextName(making[p])
                         ELSE IF making[q].step # "done" /\ path \in Prefixes(making[q].target)
                         THEN [making[q] EXCEPT !.overtaken = TRUE]
                         ELSE making[q]]
        /\ UNCHANGED files

(* ... or the system does not allow it, or has no room.                    *)
MkdirFails(p) ==
    LET path == Prefix(making[p].target, making[p].i)
    IN  /\ making[p].step = "mkdir"
        /\ making' = [making EXCEPT ![p] =
                         [@ EXCEPT !.step = "done", !.result = -1, !.refused = CanMake(path)]]
        /\ UNCHANGED <<dirs, files>>

-----------------------------------------------------------------------------
(* Before the calls there may be a part of a path already, or a file where *)
(* a directory should be.                                                  *)
CreateDirInit ==
    /\ \E path \in Targets, i \in 0 .. 1, blocked \in BOOLEAN :
          /\ dirs  = IF i = 1 /\ ~blocked THEN {Prefix(path, i)} ELSE {}
          /\ files = IF i = 1 /\ blocked THEN {Prefix(path, i)} ELSE {}
    /\ making = [p \in Callers |-> NotMaking]

CreateDirNext ==
    \E p \in Callers :
        \/ \E path \in Targets : Call(p, path)
        \/ Access(p) \/ Mkdir(p) \/ MkdirFails(p)

CreateDirSpec == CreateDirInit /\ [][CreateDirNext]_createDirVars

-----------------------------------------------------------------------------
(* Properties *)

(* When createdir returns 0, the path is there and all that is above it    *)
(* are directories; its last name may be a file that was there.  When it   *)
(* returns -1, the system has refused a directory, a file is in the way,   *)
(* or another process has just made a directory of the path: then it fails *)
(* although nothing is wrong.                                              *)
CreatedirSound ==
    \A p \in Callers :
        making[p].target # << >> /\ making[p].step = "done" =>
            IF making[p].result = 0
            THEN /\ Prefixes(making[p].target) \ {making[p].target} \subseteq dirs
                 /\ making[p].target \in dirs \cup files
            ELSE \/ making[p].refused \/ making[p].overtaken
                 \/ Prefixes(making[p].target) \cap files # {}
=============================================================================
