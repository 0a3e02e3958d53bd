----------------------------- MODULE ScriptRun -----------------------------
(***************************************************************************)
(* EvalScript one instruction at a time, on every script that can be       *)
(* written with a set of instructions (script.cpp:419-1294).               *)
(***************************************************************************)
EXTENDS Script

CONSTANTS
    Alphabets,   \* sets of instructions; a behaviour uses one of them
    MaxProgram   \* bound on instructions, for each alphabet

VARIABLES
    alphabet,    \* the instructions of this behaviour
    program,     \* the instructions so far
    machine,     \* the state of EvalScript
    taken        \* ghost: what OP_IF and OP_NOTIF at a position found, where they looked

scriptVars == <<alphabet, program, machine, taken>>

IsIf(i) == i = Op("IF") \/ i = Op("NOTIF")

ScriptInit ==
    /\ alphabet \in Alphabets
    /\ program = <<>> /\ machine = Start(<<>>) /\ taken = <<>>

(* The next turn of the loop. *)
Turn(i) ==
    /\ machine.ok /\ Len(program) < MaxProgram[alphabet]
    /\ program' = Append(program, i)
    /\ machine' = Step(machine, program')
    /\ taken' = Append(taken, IF IsIf(i) /\ Executing(machine) /\ machine.stack # <<>>
                              THEN CastToBool(Last(machine.stack)) = (i = Op("IF")) ELSE FALSE)
    /\ UNCHANGED alphabet

ScriptNext == \E i \in alphabet : Turn(i)

ScriptSpec == ScriptInit /\ [][ScriptNext]_scriptVars

-----------------------------------------------------------------------------
(* Properties.                                                             *)

(* The structured reading of a script: a position is inside the OP_IF      *)
(* whose OP_ENDIF has not come, and an OP_ELSE on its level changes the    *)
(* branch.                                                                 *)
Count(P(_), from, to) == Cardinality({q \in from .. to : P(program[q])})
Depth(p) == Count(IsIf, 1, p) - Count(LAMBDA i : i = Op("ENDIF"), 1, p)
Encloses(j, p) == IsIf(program[j]) /\ \A q \in j .. p : Depth(q) >= Depth(j)
Elses(j, p) == Cardinality({q \in j .. p : program[q] = Op("ELSE") /\ Depth(q) = Depth(j)})

(* An instruction is executed exactly when every OP_IF around it chose its *)
(* branch: nested conditionals in a branch that is not taken, several      *)
(* OP_ELSE and an OP_ELSE of an inner level never wake it up (vfExec,      *)
(* script.cpp:433 and 488-530).                                            *)
ExecAgrees ==
    machine.ok =>
        (Executing(machine) <=>
            \A j \in DOMAIN program : Encloses(j, Len(program)) =>
                taken[j] = (Elses(j, Len(program)) % 2 = 0))

(* A number on a stack reads back as itself and is true exactly when it is *)
(* not zero, whichever opcodes made it: the byte for the sign at 128 and   *)
(* 32768, negative numbers, and the empty string for zero (CBigNum,        *)
(* CastToBigNum, CastToBool).                                              *)
NumbersExact ==
    \A v \in Range(machine.stack) \cup Range(machine.alt) :
        IsNum(v) => /\ Encode(CastToBigNum(v)) = v
                    /\ CastToBool(v) <=> CastToBigNum(v) # 0
=============================================================================
