------------------------------ MODULE MaskMachine ------------------------------
(***************************************************************************)
(* Machines of design/mode/states whose state is a mask, a mask being the  *)
(* set of its bits.                                                        *)
(*                                                                         *)
(* ex_ver_3 (Init, Next): a mask in an atomic, changed with a loop of      *)
(* compare-and-swap that a validator may refuse, or without one by store,  *)
(* fetch_or and fetch_and.  Observers hear of the former only.             *)
(*                                                                         *)
(* ex_combine_v3 and ex_mask_state_machine_v2 (TableInit, TableNext): the  *)
(* states of devices packed into one mask.  In deviceMask a device's state *)
(* never goes down; the setter of subMask clears half of the bits it may   *)
(* set.                                                                    *)
(***************************************************************************)
EXTENDS Naturals, FiniteSets, FiniteSetsExt

CONSTANTS Threads,
          Bits,       \* of the mask
          Calls,      \* of set_field_atomic: [field, value, valid], with the field
                      \* as its bits and valid if there is a validator
          Forbidden,  \* the pairs the validator refuses
          Wide,       \* whether 1 << width is undefined for the field of all bits
          Devices,    \* 0 .. the number of devices - 1
          Width,      \* the bits of a device
          Cleared     \* how many of them SetSubsystemState clears

\* A value is cut to its field before it is entered.
MaskAssumption ==
    /\ IsFiniteSet(Threads)
    /\ Calls \subseteq [field : SUBSET Bits, value : SUBSET Bits, valid : BOOLEAN]
    /\ \A c \in Calls : c.value \subseteq c.field
    /\ Devices \subseteq Nat /\ Width \in Nat /\ Cleared \in 0..Width

VARIABLES
    mask,         \* state_
    pc, call, oldv, newv,
    view,         \* history: the mask the observers heard of last
    untold        \* history: the mask was changed without a report, or a change
                  \* was reported before an earlier one

VARIABLES deviceMask, subMask

vars == <<mask, pc, call, oldv, newv, view, untold>>

NoCall == [field |-> {}, value |-> {}, valid |-> FALSE]

\* compute_new of set_field_atomic.  Of a field as wide as a 64-bit mask the value
\* is cut with 1 << 64, which the processor takes for 1: nothing of it is left.
Computed(old, c) ==
    {(old \ c.field) \cup v : v \in IF Wide /\ c.field = Bits THEN {c.value, {}} ELSE {c.value}}

Refused(t, new) == call[t].valid /\ <<oldv[t], new>> \in Forbidden

Return(t) == /\ pc' = [pc EXCEPT ![t] = "idle"]
             /\ call' = [call EXCEPT ![t] = NoCall]
             /\ oldv' = [oldv EXCEPT ![t] = {}]
             /\ newv' = [newv EXCEPT ![t] = {}]

Exchange(t, new) == /\ mask' = new
                    /\ newv' = [newv EXCEPT ![t] = new]
                    /\ pc' = [pc EXCEPT ![t] = "notify"]
                    /\ UNCHANGED <<call, oldv>>

\* Mutant: the exchange does not compare.
CasBlind(t) ==
    /\ pc[t] = "cas"
    /\ \E new \in Computed(oldv[t], call[t]) :
          IF Refused(t, new) THEN Return(t) /\ UNCHANGED mask
          ELSE Exchange(t, new)
    /\ UNCHANGED <<view, untold>>

-------------------------------------------------------------------------------

Init == /\ mask = {}
        /\ pc = [t \in Threads |-> "idle"]
        /\ call = [t \in Threads |-> NoCall]
        /\ oldv = [t \in Threads |-> {}] /\ newv = [t \in Threads |-> {}]
        /\ view = {}
        /\ untold = FALSE

\* store, fetch_or and fetch_and are one atomic operation each.
Store(t) ==
    /\ pc[t] = "idle"
    /\ \E bits \in SUBSET Bits : mask' \in {bits, mask \cup bits, mask \cap bits}
    /\ untold' = (untold \/ mask' # mask)
    /\ UNCHANGED <<pc, call, oldv, newv, view>>

\* set_field_atomic, up to the first load.
SetField(t, c) ==
    /\ pc[t] = "idle"
    /\ call' = [call EXCEPT ![t] = c]
    /\ oldv' = [oldv EXCEPT ![t] = mask]
    /\ pc' = [pc EXCEPT ![t] = "cas"]
    /\ UNCHANGED <<mask, newv, view, untold>>

\* One turn of the loop.  The exchange may fail though nobody changed the mask.
Cas(t) ==
    /\ pc[t] = "cas"
    /\ \E new \in Computed(oldv[t], call[t]) :
          IF Refused(t, new) THEN Return(t) /\ UNCHANGED mask
          ELSE \/ mask = oldv[t] /\ Exchange(t, new)
               \/ /\ oldv' = [oldv EXCEPT ![t] = mask]
                  /\ UNCHANGED <<mask, pc, call, newv>>
    /\ UNCHANGED <<view, untold>>

\* notify_observers, which takes the observers' mutex after the exchange.
Notify(t) ==
    /\ pc[t] = "notify"
    /\ view' = newv[t]
    /\ untold' = (untold \/ view # oldv[t])
    /\ Return(t)
    /\ UNCHANGED mask

Next == \E t \in Threads : \/ Store(t) \/ Cas(t) \/ Notify(t)
                           \/ \E c \in Calls : SetField(t, c)

-------------------------------------------------------------------------------

\* An update leaves the bits of the other fields as they were at its exchange, and
\* one with a validator makes no change that it refuses, however often it is retried.
UpdatesAreValid ==
    [][\A t \in Threads : pc[t] = "cas" /\ pc'[t] = "notify" =>
           /\ mask' \ call[t].field = mask \ call[t].field
           /\ call[t].valid => <<mask, mask'>> \notin Forbidden]_vars

\* When no update is under way the observers know the mask, unless two reports were
\* made in the other order than the changes or a change was not reported.
ViewIsState == (\A t \in Threads : pc[t] = "idle") /\ ~untold => view = mask

-------------------------------------------------------------------------------

tableVars == <<deviceMask, subMask>>

FieldBits == 0..(Width - 1)
States == SUBSET FieldBits

\* The order of the numbers that the bits stand for: the highest bit in which they
\* differ decides.
Less(a, b) == LET differ == (a \ b) \cup (b \ a)
              IN  differ # {} /\ Max(differ) \in b

GetDeviceState(m, i) == {b \in FieldBits : i * Width + b \in m}

-------------------------------------------------------------------------------

\* The field is cleared, the state cut to its width.
SetDeviceState(m, i, state) ==
    (m \ {i * Width + b : b \in FieldBits}) \cup {i * Width + b : b \in state}

CanTransitionNoDowngrade(from, to) ==
    \A i \in Devices : ~Less(GetDeviceState(to, i), GetDeviceState(from, i))

Clamped(cur, want) == IF Less(want, cur) THEN cur ELSE want

\* clampNoDowngrade: the result is 0 at first, and each device's field is set once.
ClampNoDowngrade(from, desired) ==
    UNION {SetDeviceState({}, i, Clamped(GetDeviceState(from, i), GetDeviceState(desired, i))) :
           i \in Devices}

\* SetSubsystemState clears the low bits of the field and sets all of the state's.
SetSubsystemState(m, i, state) ==
    (m \ {i * Width + b : b \in 0..(Cleared - 1)}) \cup {i * Width + b : b \in state}

\* GetSusSystemState cuts the field as the setter clears it.
GetSubsystemState(m, i) == {b \in 0..(Cleared - 1) : i * Width + b \in m}

TableInit == deviceMask = {} /\ subMask = {}

\* getNextMask, with what the business wants of every device.
GetNextMask(desired) ==
    /\ deviceMask' = ClampNoDowngrade(deviceMask, desired)
    /\ UNCHANGED subMask

Set(i, state) ==
    /\ subMask' = SetSubsystemState(subMask, i, state)
    /\ UNCHANGED deviceMask

TableNext == \/ \E desired \in SUBSET {i * Width + b : i \in Devices, b \in FieldBits} :
                    GetNextMask(desired)
             \/ \E i \in Devices, state \in States : Set(i, state)

-------------------------------------------------------------------------------

\* No device goes down, and clamping twice is clamping once.  The setter of the
\* other machine changes what the getter shows of its own subsystem only; the bits
\* above those it clears may stay from an earlier state, and nothing else does.
FieldsFollowTheRules ==
    [][/\ CanTransitionNoDowngrade(deviceMask, deviceMask')
       /\ ClampNoDowngrade(deviceMask', deviceMask) = deviceMask'
       /\ \A i \in Devices :
             GetDeviceState(subMask', i) # GetDeviceState(subMask, i) =>
                 /\ \A j \in Devices \ {i} : GetDeviceState(subMask', j) = GetDeviceState(subMask, j)
                 /\ \E state \in States :
                       /\ GetSubsystemState(subMask', i) = state \cap (0..(Cleared - 1))
                       /\ GetDeviceState(subMask', i) \ state
                              \subseteq GetDeviceState(subMask, i) \ (0..(Cleared - 1))]_tableVars
===============================================================================
