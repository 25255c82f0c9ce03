----------------------------- MODULE ClientEvents -----------------------------
(***************************************************************************)
(* What the observers of a client application are told: FabricClientDispatch *)
(* composed with the calls of ClientCalls.                                 *)
(*                                                                         *)
(* With syntheticEvents (the default) the dispatch wraps the adapter's     *)
(* methods and tells the observers of the calls of this application.       *)
(* Without it, the dispatch listens to the chaincode events of the channel *)
(* and still wraps the methods for classes with private attributes.  The   *)
(* local notification is not awaited: it happens some time after the call  *)
(* returned.                                                               *)
(*                                                                         *)
(* A behaviour starts when the dispatch has been initialised, which is     *)
(* where the listener's chain begins.  The listener never reconnects: an   *)
(* event whose payload cannot be parsed, or the loss of the connection,    *)
(* ends it.  The events of other contracts are not modelled beyond that.   *)
(***************************************************************************)
EXTENDS ClientCalls

CONSTANT Observed   \* the clients whose dispatch has been initialised for observers

VARIABLES
    listener,   \* per client: "off", "on" or "closed"
    position,   \* per client: how much of the chain its listener has handled
    heard,      \* per client: the chain events its observers were told, in order
    pending,    \* per client: its calls with a local notification under way
    told        \* per client: the calls its observers were told of locally

eventVars == <<listener, position, heard, pending, told>>
vars == <<callVars, eventVars>>

-----------------------------------------------------------------------------
\* The dispatch wraps the methods of the adapter.

\* Mutant of TellsLocally: the fallback is for every class.
TellsAlways(c) == c \in Observed

\* Which calls the wrapper tells the observers of.
TellsLocally(c) == c \in Observed /\ (settings.synthetic \/ IsTransient)

\* Mutant of Wrapped: observers are told before the call is known to succeed.
WrappedEager(c) ==
    pending' = [pending EXCEPT ![c] =
        IF TellsLocally(c) /\ client'[c].pc = "ordered"
        THEN @ \cup {client[c].call} ELSE @]

\* Mutant of Wrapped: the bulk methods are not wrapped.
WrappedSingles(c) ==
    pending' = [pending EXCEPT ![c] =
        IF TellsLocally(c) /\ client[c].pc # "idle" /\ Succeeded(c)' /\ ~client[c].call.bulk
        THEN @ \cup {client[c].call} ELSE @]

\* A wrapped call that returns without an error starts a notification.  migrate
\* is not wrapped.
Wrapped(c) ==
    pending' = [pending EXCEPT ![c] =
        IF TellsLocally(c) /\ client[c].pc # "idle" /\ Succeeded(c)'
           /\ client[c].call.op # "migrate"
        THEN @ \cup {client[c].call} ELSE @]

TellLocal(c, call) ==
    /\ call \in pending[c]
    /\ pending' = [pending EXCEPT ![c] = @ \ {call}]
    /\ told' = [told EXCEPT ![c] = @ \cup {call}]
    /\ UNCHANGED <<callVars, listener, position, heard>>

-----------------------------------------------------------------------------
\* The listener.

\* Mutant of Listens: the flag is not looked at.
ListensAlways(c) == c \in Observed

\* initialize asks for the events from the end of the chain on, giving neither
\* a block nor a checkpoint; with synthetic events it asks for none.
Listens(c) == c \in Observed /\ ~settings.synthetic

\* The peers deliver the events of valid transactions only.
IsEvent(n) == chain[n].valid /\ chain[n].event # NoEvent

\* The name and the payload of an event: the record ids of the operation.
Parsed(n) == [at |-> n, ids |-> chain[n].event]

\* Mutant of Listen: only the application's own changes are handled.
ListenOwn(c) ==
    LET n == position[c] + 1
    IN  /\ listener[c] = "on"
        /\ n <= Len(chain)
        /\ position' = [position EXCEPT ![c] = n]
        /\ heard' = [heard EXCEPT ![c] =
                IF IsEvent(n) /\ chain[n].call.by = c THEN Append(@, Parsed(n)) ELSE @]
        /\ UNCHANGED <<callVars, listener, pending, told>>

\* One step of the loop of handleEvents.  An observer that throws is logged
\* and the loop goes on.
Listen(c) ==
    LET n == position[c] + 1
    IN  /\ listener[c] = "on"
        /\ n <= Len(chain)
        /\ position' = [position EXCEPT ![c] = n]
        /\ heard' = [heard EXCEPT ![c] =
                IF IsEvent(n) THEN Append(@, Parsed(n)) ELSE @]
        /\ UNCHANGED <<callVars, listener, pending, told>>

\* The loop ends with an error: the listener is closed and nothing opens it
\* again.  Notifications that are under way are not affected.
CloseListener(c) ==
    /\ listener[c] = "on"
    /\ listener' = [listener EXCEPT ![c] = "closed"]
    /\ UNCHANGED <<callVars, position, heard, pending, told>>

-----------------------------------------------------------------------------
Init ==
    /\ CallsInit
    /\ listener = [c \in Clients |-> IF Listens(c) THEN "on" ELSE "off"]
    /\ position = [c \in Clients |-> 0]
    /\ heard = [c \in Clients |-> <<>>]
    /\ pending = [c \in Clients |-> {}]
    /\ told = [c \in Clients |-> {}]

ClientStep(c) ==
    /\ \/ ReadBefore(c)
       \/ \E t \in Txs : Submit(c, t) \/ SubmitLegacy(c, t)
       \/ MigrationFails(c)
       \/ Receive(c)
       \/ ReadAfter(c)
       \/ Deadline(c)
    /\ Wrapped(c)
    /\ UNCHANGED <<listener, position, heard, told>>

Next ==
    \/ \E c \in Clients :
          \/ Start(c) /\ UNCHANGED eventVars
          \/ ClientStep(c)
          \/ Listen(c) \/ CloseListener(c)
          \/ \E call \in pending[c] : TellLocal(c, call)
    \/ \E t \in Txs : Settle(t) /\ UNCHANGED eventVars

\* The deadlines of a call are timers, a notification that was started and
\* the loop of the listener are promises: they go on.  Nothing is assumed of
\* the peers and the orderer.
Fairness ==
    \A c \in Clients :
        /\ WF_vars(Deadline(c) /\ Wrapped(c) /\ UNCHANGED <<listener, position, heard, told>>)
        /\ WF_vars(Listen(c))
        /\ WF_vars(\E call \in pending[c] : TellLocal(c, call))

Spec == Init /\ [][Next]_vars /\ Fairness

-----------------------------------------------------------------------------
\* Properties.

TypeOK ==
    /\ CallsTypeOK
    /\ listener \in [Clients -> {"off", "on", "closed"}]
    /\ \A c \in Clients :
          /\ position[c] \in 0..Len(chain)
          /\ pending[c] \cap told[c] = {}
          /\ settings.synthetic => listener[c] = "off" /\ heard[c] = <<>>

\* Observers are told of committed changes only, by either way, and by the
\* listener in the order of the chain.
ToldIsCommitted ==
    \A c \in Clients :
        /\ \A call \in pending[c] \cup told[c] : Committed(call)
        /\ \A i \in DOMAIN heard[c] : chain[heard[c][i].at].valid
        /\ \A i, j \in DOMAIN heard[c] : i < j => heard[c][i].at < heard[c][j].at

\* What the listener tells of a bulk operation names every record it wrote.
HeardIsWhole ==
    \A c \in Clients : \A i \in DOMAIN heard[c] :
        heard[c][i].ids = chain[heard[c][i].at].call.ids

ToldTwice(c) ==
    \E i \in DOMAIN heard[c] : chain[heard[c][i].at].call \in told[c] \cup pending[c]

\* No change is told both by the listener and by the wrapper ("skip the local
\* fallback to avoid double-notification", comment in initialize), for classes
\* without a public or without a private part.
ToldOnce == shape # "mixed" => \A c \in Clients : ~ToldTwice(c)

\* The observers of a client are told of its own successful calls, if the
\* wrapper has to.
OwnCallsAreTold ==
    \A c \in Observed, n \in 1..MaxCalls :
        (/\ Succeeded(c) /\ client[c].call.number = n
         /\ TellsLocally(c) /\ client[c].call.op # "migrate")
            ~> (\E call \in told[c] : call.number = n)

\* Every public change that is committed while a client listens is told to its
\* observers, unless the listener is closed.
ChangesAreHeard ==
    \A c \in Observed, n \in 1..MaxCalls :
        (listener[c] = "on" /\ n \in (position[c] + 1)..Len(chain) /\ IsEvent(n))
            ~> (listener[c] = "closed" \/ \E i \in DOMAIN heard[c] : heard[c][i].at = n)
=============================================================================
