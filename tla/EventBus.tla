------------------------------- MODULE EventBus -------------------------------
(***************************************************************************)
(* Subjects and their observers.  One kind of them is chosen initially:    *)
(*   bus         observer/ver2/ver_func/example_3.cpp, EventBus            *)
(*   module      observer/ver2/ver_func/example_2.cpp, ModuleManager       *)
(*   news        observer/ver1/news_publisher.hpp, NewsPublisher           *)
(*   dispatcher  craft/dispatch/command_dispatch.hpp, CommandDispatcher    *)
(*   manager     observer/ver1/event_mgr.hpp, EventMgr, for one thread     *)
(* All but the manager call the observers with their mutex held.  Of the   *)
(* events one is modelled: the lists of the others are independent of it.  *)
(***************************************************************************)
EXTENDS Naturals, Sequences, FiniteSets, SequencesExt

CONSTANTS Publishers,    \* the threads
          Observers,
          Kinds,
          MaxObservers,  \* the bound of the list, which may hold one twice
          Nobody

EventBusAssumption == Nobody \notin Publishers

VARIABLES
    kind,
    observers,
    mutex,      \* the thread that holds it, or Nobody
    call,       \* call[t]: what t is doing and with which observer
    at,         \* at[t]: the place in the list t's publication has come to
    news,       \* latest_news_: the thread that wrote it last
    seen,       \* history: the news an observer got last, Nobody if none yet
    gone,       \* history: the observers whose unsubscription has
                \* returned and that were not subscribed since
    undefined   \* a torn string or a vector that grew below an iterator

vars == <<kind, observers, mutex, call, at, news, seen, gone, undefined>>

Idle == [op |-> "none", arg |-> Nobody]

\* Mutant: one occurrence is removed, as if none could be there twice.
DetachFirst(o) == RemoveFirst(observers, o)

\* Mutant: the last observer's return does not release the mutex.
EndKeepsMutex(t) ==
    /\ call[t].op = "publish" /\ at[t] > Len(observers)
    /\ call' = [call EXCEPT ![t] = Idle]
    /\ at' = [at EXCEPT ![t] = 0]
    /\ UNCHANGED <<kind, observers, mutex, news, seen, gone, undefined>>

-------------------------------------------------------------------------------

Init == /\ kind \in Kinds
        /\ observers = <<>>
        /\ mutex = Nobody
        /\ call = [t \in Publishers |-> Idle]
        /\ at = [t \in Publishers |-> 0]
        /\ news = Nobody
        /\ seen = [o \in Observers |-> Nobody]
        /\ gone = {}
        /\ undefined = FALSE

Ops == CASE kind \in {"bus", "module", "news"} -> {"subscribe", "unsubscribe", "publish"}
         [] kind = "dispatcher" -> {"subscribe", "unsubscribeAll", "publish"}
         [] kind = "manager" -> {"subscribe", "publish"}

\* NewsPublisher::publish stores the news without the mutex: with another publication
\* under way the string may be torn.
StoreNews(t) ==
    /\ news' = t
    /\ undefined' \in {undefined, \E u \in Publishers : call[u].op = "publish"}

\* A call starts.
Call(t, op, o) ==
    /\ call[t] = Idle /\ op \in Ops
    /\ kind = "manager" => \A u \in Publishers : call[u] = Idle
    /\ call' = [call EXCEPT ![t] = [op |-> op, arg |->
                   IF op \in {"subscribe", "unsubscribe"} THEN o ELSE Nobody]]
    /\ IF kind = "news" /\ op = "publish" THEN StoreNews(t)
       ELSE UNCHANGED <<news, undefined>>
    /\ UNCHANGED <<kind, observers, mutex, at, seen, gone>>

Return(t) == call' = [call EXCEPT ![t] = Idle]

\* The bus and the module manager take an observer once.
SubscribeOnce(o) == IF Contains(observers, o) THEN observers ELSE Append(observers, o)

\* attach of the news and Subscribe of the manager.
Attach(o) == Append(observers, o)

\* The dispatcher has one handler of a command.
RegisterHandler(o) == <<o>>

Added(o) == CASE kind \in {"bus", "module"} -> SubscribeOnce(o)
              [] kind \in {"news", "manager"} -> Attach(o)
              [] kind = "dispatcher" -> RegisterHandler(o)

Subscribe(t) ==
    /\ mutex = Nobody
    /\ call[t].op = "subscribe"
    /\ Len(observers) < MaxObservers
    /\ observers' = Added(call[t].arg)
    /\ seen' = [seen EXCEPT ![call[t].arg] = Nobody]
    /\ gone' = gone \ {call[t].arg}
    /\ Return(t)
    /\ UNCHANGED <<kind, mutex, at, news, undefined>>

\* Unsubscribe of the bus erases the first, the only one there is.
UnsubscribeFirst(o) == RemoveFirst(observers, o)

\* UnregisterObserver and detach remove all: the k-th that stays is the one that has
\* k of them up to its place.
Detach(o) ==
    LET kept == {i \in DOMAIN observers : observers[i] # o} IN
    [k \in 1..Cardinality(kept) |->
        observers[CHOOSE i \in kept : Cardinality({j \in kept : j <= i}) = k]]

Removed(o) == IF kind = "bus" THEN UnsubscribeFirst(o) ELSE Detach(o)

Unsubscribe(t) ==
    /\ mutex = Nobody
    /\ call[t].op = "unsubscribe"
    /\ observers' = Removed(call[t].arg)
    /\ gone' = gone \cup {call[t].arg}
    /\ Return(t)
    /\ UNCHANGED <<kind, mutex, at, news, seen, undefined>>

UnregisterAll(t) ==
    /\ mutex = Nobody
    /\ call[t].op = "unsubscribeAll"
    /\ observers' = <<>>
    /\ gone' = Observers
    /\ Return(t)
    /\ UNCHANGED <<kind, mutex, at, news, seen, undefined>>

BeginPublish(t) ==
    /\ kind # "manager" => mutex = Nobody
    /\ call[t].op = "publish" /\ at[t] = 0
    /\ mutex' = IF kind = "manager" THEN mutex ELSE t
    /\ at' = [at EXCEPT ![t] = 1]
    /\ UNCHANGED <<kind, observers, call, news, seen, gone, undefined>>

\* The next observer is called and returns.
Notify(t) ==
    /\ call[t].op = "publish" /\ at[t] \in DOMAIN observers
    /\ seen' = [seen EXCEPT ![observers[at[t]]] = news]
    /\ at' = [at EXCEPT ![t] = @ + 1]
    /\ UNCHANGED <<kind, observers, mutex, call, news, gone, undefined>>

\* The observer calls its subject: it waits for the mutex that its caller holds, or,
\* with the manager, lets the vector grow below the loop.
NotifyCallsBack(t) ==
    /\ call[t].op = "publish" /\ at[t] \in DOMAIN observers
    /\ call' = [call EXCEPT ![t].op = IF kind = "manager" THEN "publish" ELSE "reentering"]
    /\ undefined' = (undefined \/ kind = "manager")
    /\ UNCHANGED <<kind, observers, mutex, at, news, seen, gone>>

EndPublish(t) ==
    /\ call[t].op = "publish" /\ at[t] > Len(observers)
    /\ mutex' = Nobody
    /\ Return(t)
    /\ at' = [at EXCEPT ![t] = 0]
    /\ UNCHANGED <<kind, observers, news, seen, gone, undefined>>

Proceed(t) == \/ Subscribe(t) \/ Unsubscribe(t) \/ UnregisterAll(t)
              \/ BeginPublish(t) \/ Notify(t) \/ EndPublish(t)

Next == /\ ~undefined
        /\ \E t \in Publishers :
              \/ Proceed(t) \/ NotifyCallsBack(t)
              \/ \E op \in {"subscribe", "unsubscribe", "unsubscribeAll", "publish"},
                    o \in Observers : Call(t, op, o)

-------------------------------------------------------------------------------

\* Once the call that unsubscribes an observer has returned, no publication of any
\* thread calls it, however often it had been subscribed.
GoneIsNotCalled == \A i \in DOMAIN observers : observers[i] \notin gone

\* NewsPublisher: when nobody is publishing, whoever was attached since the last
\* publication began has seen the latest news, in whatever order the publishers
\* stored and notified; the store without the mutex can tear the string.
LatestIsSeen ==
    kind = "news" /\ ~undefined /\ (\A t \in Publishers : call[t].op # "publish")
                  /\ (\A t \in Publishers : call[t].op # "reentering") =>
        \A i \in DOMAIN observers : seen[observers[i]] \in {Nobody, news}

\* A publication lets go of the mutex, unless an observer calls its subject.
PublishEndsUnlessReentered ==
    \A t \in Publishers :
        mutex = t ~> mutex # t \/ call[t].op = "reentering"
===============================================================================
