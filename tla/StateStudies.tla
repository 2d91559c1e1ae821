----------------------------- MODULE StateStudies -----------------------------
(***************************************************************************)
(* design/mode/states/ex_ver2: the states of some subsystems, and a list   *)
(* of final states of the whole.  Whoever sets a subsystem evaluates then, *)
(* under a shared lock, which final state holds now.  BestMatch is the     *)
(* query of mask_state_machine/craft/ver2.cpp, whose final states have     *)
(* exceptions, Matched that of ex_combine_0825 with its modes.             *)
(*                                                                         *)
(* craft/states/multi_event/test.cpp: a state machine whose transitions    *)
(* need several events within a window.  Time is kept as ages, in whole    *)
(* milliseconds that are cut at MaxAge.                                    *)
(***************************************************************************)
EXTENDS Integers, Sequences, SequencesExt, FiniteSetsExt

CONSTANTS Threads, Subsystems, Bits,
          Finals,   \* the final states, in the order in which they are added
          None      \* the empty name

FinalStatesAssumption ==
    /\ Subsystems # {}
    /\ Finals \in Seq(ToSet(Finals))
    /\ \A i \in DOMAIN Finals : Finals[i].priority \in Int

VARIABLES
    current_, finals_, lastFinal_,
    pc,
    race,     \* lastFinal_ was written during another evaluation
    added     \* history: final states were added after the last evaluation

finalVars == <<current_, finals_, lastFinal_, pc, race, added>>

ContainsAll(state, required) == \A s \in Subsystems : required[s] \subseteq state[s]
OverlapsAny(state, other) == \E s \in Subsystems : state[s] \cap other[s] # {}
OverlapsAllSubsystems(state, other) == \A s \in Subsystems : state[s] \cap other[s] # {}

\* FinalState::matches; ex_ver2 has one exception for each and does not look at it.
Matches(final, state) ==
    /\ ~OverlapsAny(state, final.forbidden)
    /\ ContainsAll(state, final.required)

-------------------------------------------------------------------------------

FinalInit == /\ current_ = [s \in Subsystems |-> {}]
             /\ finals_ = <<>>
             /\ lastFinal_ = None
             /\ pc = [t \in Threads |-> "idle"]
             /\ race = FALSE /\ added = FALSE

Unlocked == \A t \in Threads : pc[t] # "evaluating"

AddFinalState(t) ==
    /\ Unlocked /\ pc[t] = "idle"
    /\ Len(finals_) < Len(Finals)
    /\ finals_' = Append(finals_, Finals[Len(finals_) + 1])
    /\ added' = TRUE
    /\ UNCHANGED <<current_, lastFinal_, pc, race>>

\* A subsystem has one bit or none: all are reset before one is set.
SetSubsystemState(t, s) ==
    /\ Unlocked /\ pc[t] = "idle"
    /\ \E bitpos \in Bits, value \in BOOLEAN :
          current_' = [current_ EXCEPT ![s] = IF value THEN {bitpos} ELSE {}]
    /\ pc' = [pc EXCEPT ![t] = "set"]
    /\ UNCHANGED <<finals_, lastFinal_, race, added>>

\* evaluate takes the lock again, shared.
BeginEvaluate(t) ==
    /\ pc[t] = "set"
    /\ pc' = [pc EXCEPT ![t] = "evaluating"]
    /\ UNCHANGED <<current_, finals_, lastFinal_, race, added>>

\* The first that matches, or the empty name.
NewFinal ==
    LET found == {i \in DOMAIN finals_ : Matches(finals_[i], current_)} IN
    IF found = {} THEN None ELSE finals_[Min(found)].name

\* Mutant: a state that no final state describes leaves the last name standing.
EndEvaluateKept(t) ==
    /\ pc[t] = "evaluating"
    /\ lastFinal_' = IF NewFinal = None THEN lastFinal_ ELSE NewFinal
    /\ pc' = [pc EXCEPT ![t] = "idle"]
    /\ added' = FALSE
    /\ UNCHANGED <<current_, finals_, race>>

\* The name is stored and reported if it differs; another evaluation under way
\* reads or writes the string at the same time.
EndEvaluate(t) ==
    /\ pc[t] = "evaluating"
    /\ lastFinal_' = NewFinal
    /\ race' = (race \/ (lastFinal_' # lastFinal_
                            /\ \E u \in Threads \ {t} : pc[u] = "evaluating"))
    /\ pc' = [pc EXCEPT ![t] = "idle"]
    /\ added' = FALSE
    /\ UNCHANGED <<current_, finals_>>

FinalNext == /\ ~race
             /\ \E t \in Threads : \/ AddFinalState(t) \/ BeginEvaluate(t) \/ EndEvaluate(t)
                                   \/ \E s \in Subsystems : SetSubsystemState(t, s)

-------------------------------------------------------------------------------

MatchesBut(final, state) ==
    Matches(final, state) /\ \A e \in final.except : ~ContainsAll(state, e)

\* best_match: a later state replaces the best only with a higher priority, so that
\* the first of those with the highest is left.  Here its place in the list, or 0.
BestMatch(finals, state) ==
    LET found == {i \in DOMAIN finals : MatchesBut(finals[i], state)}
        highest == {i \in found : \A j \in found : finals[j].priority <= finals[i].priority}
    IN  IF found = {} THEN 0 ELSE Min(highest)

Accepts(mode, state, other) ==
    CASE mode = "contains" -> ContainsAll(state, other)
      [] mode = "OverlapsAllSubsystems" -> OverlapsAllSubsystems(state, other)
      [] mode = "OverlapsAny" -> OverlapsAny(state, other)

\* MatchFinalStates: the places of those the mode accepts, by descending priority.
\* Equals may come in any order: the code then compares their masks.
Matched(finals, state, mode) ==
    LET found == {i \in DOMAIN finals : Accepts(mode, state, finals[i].required)}
    IN  {order \in Bijection(1..Cardinality(found), found) :
            \A i, j \in DOMAIN order :
                i < j => finals[order[j]].priority <= finals[order[i]].priority}

-------------------------------------------------------------------------------

\* When every evaluation is over, the name that was reported last is that of the
\* first final state that holds, whichever thread evaluated last, unless two wrote
\* it at once or final states were added since.
FinalIsCurrent ==
    (\A t \in Threads : pc[t] = "idle") /\ ~race /\ ~added =>
        lastFinal_ = NewFinal

Excluded(final, state) ==
    \/ OverlapsAny(state, final.forbidden)
    \/ \E e \in final.except : ContainsAll(state, e)

\* The queries agree.  Going through those that contain the required bits, in
\* whatever order equals come, the first that is not excluded has the priority of the
\* best match; there is none if there is no best match.  Who overlaps with all
\* subsystems, or contains something, is found among those that overlap with one.
QueriesAgree ==
    LET best == BestMatch(finals_, current_) IN
    /\ \A order \in Matched(finals_, current_, "contains") :
          LET kept == {k \in DOMAIN order : ~Excluded(finals_[order[k]], current_)} IN
          IF best = 0 THEN kept = {}
          ELSE /\ kept # {}
               /\ finals_[order[Min(kept)]].priority = finals_[best].priority
    /\ \A some \in Matched(finals_, current_, "OverlapsAny"), i \in DOMAIN finals_ :
          \/ OverlapsAllSubsystems(current_, finals_[i].required)
          \/ /\ ContainsAll(current_, finals_[i].required)
             /\ \E s \in Subsystems : finals_[i].required[s] # {}
          => \E k \in DOMAIN some : some[k] = i

-------------------------------------------------------------------------------

CONSTANTS Events,     \* the events
          Rules,    \* sequence of [from, to, required, window, clear]
          Start,    \* the first state
          MaxAge    \* bound: ages above it are not told apart

EventCollectorAssumption ==
    /\ MaxAge \in Nat /\ Rules \in Seq(ToSet(Rules))
    /\ \A i \in DOMAIN Rules :
          /\ Rules[i].window \in 0..MaxAge - 1
          /\ Rules[i].required \subseteq Events

VARIABLES
    state_, collected,
    elapsed,     \* the time since first_event_ts_
    age,         \* history: age[b]: the time since event b was posted last
    left,        \* history: the events that an earlier transition left over
    fired        \* history: the rule that was applied last and the ages it found

eventVars == <<state_, collected, elapsed, age, left, fired>>

NotFired == [window |-> 0, ages |-> {}]

EventInit == /\ state_ = Start
             /\ collected = {} /\ elapsed = MaxAge
             /\ age = [b \in Events |-> MaxAge]
             /\ left = {} /\ fired = NotFired

Older(n) == IF n < MaxAge THEN n + 1 ELSE n

Tick == /\ elapsed' = Older(elapsed)
        /\ age' = [b \in Events |-> Older(age[b])]
        /\ UNCHANGED <<state_, collected, left, fired>>

Late(rule, since) == rule.window > 0 /\ since > rule.window

\* A rule is applied to the events collected: those it leaves wait for the next state.
Apply(rule, all, old) ==
    /\ state_' = rule.to
    /\ collected' = IF rule.clear THEN {} ELSE all \ rule.required
    /\ elapsed' = 0
    /\ left' = collected'
    /\ fired' = [window |-> rule.window, ages |-> {age'[b] : b \in rule.required \ old}]

\* No rule is applied.
Keep(all, since, old) ==
    /\ collected' = all
    /\ elapsed' = since
    /\ left' = old \cap all
    /\ UNCHANGED <<state_, fired>>

\* post and try_transition.  The first event of a round starts its time.  The loop ends
\* at the first rule that is met; at one whose window is over the round is dropped with
\* the event that has just come, and a rule after it is met only if it needs nothing.
Post(events) ==
    LET all == collected \cup events
        since == IF collected = {} THEN 0 ELSE elapsed
        old == left \ events
        mine == {i \in DOMAIN Rules : Rules[i].from = state_}
        found == {i \in mine : Late(Rules[i], since) \/ Rules[i].required \subseteq all}
        rest == {i \in mine : i > Min(found) /\ Rules[i].required = {}}
    IN  /\ age' = [b \in Events |-> IF b \in events THEN 0 ELSE age[b]]
        /\ IF found = {} THEN Keep(all, since, old)
           ELSE IF ~Late(Rules[Min(found)], since) THEN Apply(Rules[Min(found)], all, old)
           ELSE IF rest = {} THEN Keep({}, 0, old)
           ELSE Apply(Rules[Min(rest)], {}, old)

\* tick: any rule of the state whose window is over ends the round of all.
TickCall ==
    /\ collected # {}
    /\ \E i \in DOMAIN Rules :
          Rules[i].from = state_ /\ Rules[i].window > 0 /\ elapsed > Rules[i].window
    /\ collected' = {}
    /\ left' = {}
    /\ UNCHANGED <<state_, elapsed, age, fired>>

EventNext == Tick \/ TickCall \/ \E events \in SUBSET Events \ {{}} : Post(events)

-------------------------------------------------------------------------------

\* A transition with a window finds every event it needs posted within the window,
\* except those that an earlier transition left over, whose time is forgotten.
EventsAreInTime ==
    [][fired'.window > 0 => \A a \in fired'.ages : a <= fired'.window]_eventVars
===============================================================================
