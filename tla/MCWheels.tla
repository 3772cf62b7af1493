------------------------------ MODULE MCWheels ------------------------------
(***************************************************************************)
(* The timing wheel for TLC.  A behaviour is one of the wheel with its     *)
(* pointers or one of the wheel with sets; the state of the other never    *)
(* changes.                                                                *)
(***************************************************************************)
EXTENDS WheelLists, TLC

VARIABLES
  program,
  sets, turns, kept, held, current, intick, todo, firing, asked, again

Sets == INSTANCE TimeWheel
          WITH slot <- sets, rotation <- turns, time_slot <- kept, live <- held,
               cur_slot <- current, left <- asked, rearmed <- again

setVars == <<sets, turns, kept, held, current, intick, todo, firing, asked, again>>
allVars == <<program, vars, setVars>>

MCInit == program \in {"lists", "sets"} /\ Init /\ Sets!Init

MCNext ==
  \/ program = "lists" /\ Next /\ UNCHANGED <<program, setVars>>
  \/ program = "sets" /\ Sets!Next /\ UNCHANGED <<program, vars>>

MCSpec == MCInit /\ [][MCNext]_allVars

FiresAfterItsTicks == Sets!FiresAfterItsTicks

Punctual   == Sets!Punctual
SlotsMatch == Sets!SlotsMatch

MCTimeouts == 0 .. (2 * N + 1)

Symmetry == Permutations(Timers)

=============================================================================
