------------------------------ MODULE Gateway ------------------------------
(***************************************************************************)
(* The life of the Binance gateways of one account                         *)
(* (connectors/binance_gateway.py): the requests that start and stop the   *)
(* gateway of the context (api/routers/gateway.py), the one the Louise     *)
(* service makes with the same credentials (api/louise_service.py), their  *)
(* tasks, and the listen key they share at the exchange.  The three tasks  *)
(* begin together and end together; the user data stream stands for them.  *)
(* What the streams bring is the matter of GatewayFeed.                    *)
(*                                                                         *)
(* Everything runs on one event loop: an action is what a coroutine does   *)
(* from one await that waits to the next.                                  *)
(***************************************************************************)
CONSTANTS
    Gateways,   \* bound: BinanceGateway objects alive at once
    Requests,   \* requests that may be under way at once
    Louise,     \* the Louise service, one of them
    None        \* no gateway

ASSUME GatewayAssumption ==
    /\ None \notin Gateways
    /\ Louise \in Requests

VARIABLES
    current,    \* ctx.gateway
    kept,       \* _gateways of the Louise service, for the shared account
    work,       \* where each request stands, and with which gateway
    client,     \* whether _client is there
    stop,       \* the _stop event; it may as well be set before an object exists
    user,       \* where _user_data_ws_loop stands; its waits come before a key is asked for
    held,       \* _listen_key: none, the account's live one, or a dead one
    overlapped  \* history: two requests of the operator were under way at once

objects == <<client, stop, user, held>>
gatewayVars == <<current, kept, work, objects, overlapped>>

Idle == [job |-> "none", at |-> "idle", gw |-> None]

Working(g) == user[g] # "off"
Busy(h) == work[h].at # "idle"
At(h, place) == work[h].at = place
Spare(g) == ~Working(g) /\ ~client[g] /\ g \notin {current, kept}
            /\ \A h \in Requests : work[h].gw # g

-----------------------------------------------------------------------------
(* BinanceGateway.start and stop *)

\* A new object, and its start() up to the await of the client.
Opens(h) ==
    /\ At(h, "opening")
    /\ \E g \in Gateways :
         /\ Spare(g)
         /\ work' = [work EXCEPT ![h].at = "creating", ![h].gw = g]
         /\ stop' = [stop EXCEPT ![g] = FALSE]
         /\ held' = [held EXCEPT ![g] = "none"]
    /\ UNCHANGED <<current, kept, client, user, overlapped>>

\* start(), from there on: the three tasks are made.
Started(g) ==
    /\ client' = [client EXCEPT ![g] = TRUE]
    /\ user' = [user EXCEPT ![g] = "keying"]
    /\ UNCHANGED <<stop, held>>

\* stop(), up to the gather of the tasks it has cancelled.
StopBegins(h, job, g) ==
    /\ work' = [work EXCEPT ![h] = [job |-> job, at |-> "gathering", gw |-> g]]
    /\ stop' = [stop EXCEPT ![g] = TRUE]
    /\ UNCHANGED <<client, user, held>>

\* The tasks have ended; the listen key is closed if there is one.
Gathered(h) == LET g == work[h].gw IN
    /\ At(h, "gathering")
    /\ ~Working(g)
    /\ work' = [work EXCEPT ![h].at = IF client[g] /\ held[g] # "none" THEN "closing" ELSE "leaving"]
    /\ UNCHANGED <<current, kept, objects, overlapped>>

\* stream_close has returned or failed: the key is dead for every gateway that
\* holds it, or the exchange has not heard of it.
KeyClosed(h) == LET g == work[h].gw IN
    /\ At(h, "closing")
    /\ \E heard \in BOOLEAN :
         held' = [x \in Gateways |->
             IF x = g THEN "none"
             ELSE IF heard /\ held[g] = "live" /\ held[x] = "live" THEN "dead" ELSE held[x]]
    /\ work' = [work EXCEPT ![h].at = "leaving"]
    /\ UNCHANGED <<current, kept, client, stop, user, overlapped>>

LeavesOld(h) == LET g == work[h].gw IN                              \* mutant
    /\ At(h, "leaving")
    /\ client' = [client EXCEPT ![g] = FALSE]
    /\ current' = IF work[h].job = "abort" THEN current ELSE None
    /\ work' = [work EXCEPT ![h].at = IF work[h].job = "replace" THEN "opening" ELSE "idle"]
    /\ UNCHANGED <<kept, stop, user, held, overlapped>>
\* close_connection has returned: stop() ends, and with it the request, unless
\* it stops the old gateway only to start a new one.
Left(h) == LET g == work[h].gw IN
    /\ At(h, "leaving")
    /\ client' = [client EXCEPT ![g] = FALSE]
    /\ current' = IF work[h].job = "abort" THEN current ELSE None
    /\ work' = [work EXCEPT ![h] = IF @.job = "replace"
                                   THEN [job |-> "start", at |-> "opening", gw |-> None]
                                   ELSE Idle]
    /\ UNCHANGED <<kept, stop, user, held, overlapped>>

-----------------------------------------------------------------------------
(* The requests *)

\* A request of the operator begins, beside another one or not.
Begins(h) ==
    /\ h # Louise /\ ~Busy(h)
    /\ overlapped' = (overlapped \/ \E other \in Requests \ {h, Louise} : Busy(other))
    /\ UNCHANGED <<current, kept>>

\* gateway_start: the old gateway is stopped first.
StartRequest(h) ==
    /\ Begins(h)
    /\ \/ current # None /\ StopBegins(h, "replace", current)
       \/ /\ current = None
          /\ work' = [work EXCEPT ![h] = [job |-> "start", at |-> "opening", gw |-> None]]
          /\ UNCHANGED objects

\* gateway_stop; without a gateway it does nothing.
StopRequest(h) ==
    /\ Begins(h)
    /\ current # None
    /\ StopBegins(h, "stop", current)

\* The client is there, the tasks run; the Louise service keeps the gateway.
Created(h) == LET g == work[h].gw IN
    /\ At(h, "creating")
    /\ Started(g)
    /\ \/ /\ h = Louise
          /\ kept' = g
          /\ work' = [work EXCEPT ![h] = Idle]
       \/ /\ h # Louise
          /\ work' = [work EXCEPT ![h].at = "syncing"]
          /\ UNCHANGED kept
    /\ UNCHANGED <<current, overlapped>>

\* sync_time has returned.
Synced(h) ==
    /\ At(h, "syncing")
    /\ work' = [work EXCEPT ![h].at = "reading"]
    /\ UNCHANGED <<current, kept, objects, overlapped>>

\* fetch_account has returned, be it without a reading: the context has the gateway.
Accepted(h) ==
    /\ At(h, "reading")
    /\ current' = work[h].gw
    /\ work' = [work EXCEPT ![h] = Idle]
    /\ UNCHANGED <<kept, objects, overlapped>>

\* The client cannot be made, or a call before the gateway is accepted raises:
\* the request stops what it has started.  The Louise service has nothing to stop.
Unstopped(h) ==                                                     \* mutant
    /\ h # Louise
    /\ work[h].at \in {"creating", "syncing", "reading"}
    /\ work' = [work EXCEPT ![h] = Idle]
    /\ UNCHANGED <<current, kept, objects, overlapped>>
StartFails(h) ==
    /\ \/ /\ h # Louise
          /\ work[h].at \in {"creating", "syncing", "reading"}
          /\ StopBegins(h, "abort", work[h].gw)
       \/ /\ h = Louise /\ At(h, "creating")
          /\ work' = [work EXCEPT ![h] = Idle]
          /\ UNCHANGED objects
    /\ UNCHANGED <<current, kept, overlapped>>

\* _check_bots finds no gateway for the subaccount.
LouiseConnects ==
    /\ ~Busy(Louise) /\ kept = None
    /\ work' = [work EXCEPT ![Louise] = [job |-> "start", at |-> "opening", gw |-> None]]
    /\ UNCHANGED <<current, kept, objects, overlapped>>

-----------------------------------------------------------------------------
(* _user_data_ws_loop *)

UserGoes(g, from, to) ==
    /\ user[g] = from
    /\ user' = [user EXCEPT ![g] = to]
    /\ UNCHANGED <<current, kept, work, client, stop, overlapped>>

\* The exchange gives the account's listen key: the one it has, or a new one.
Keyed(g) ==
    /\ ~stop[g]
    /\ UserGoes(g, "keying", "connecting")
    /\ held' = [held EXCEPT ![g] = "live"]

KeyRefused(g) ==
    /\ ~stop[g]
    /\ UserGoes(g, "keying", "keying")
    /\ held' = [held EXCEPT ![g] = "none"]

\* Connected, with a key that may have died meanwhile.
UserConnects(g) == ~stop[g] /\ UserGoes(g, "connecting", "listening") /\ UNCHANGED held

UserFails(g) ==
    /\ ~stop[g]
    /\ \E from \in {"connecting", "listening"} : UserGoes(g, from, "keying")
    /\ UNCHANGED held

\* After 30 minutes: a keepalive of a dead key fails, and so may one of a live
\* key; the loop leaves the stream and asks for a key.
KeepsDeadKey(g) ==                                                  \* mutant
    /\ ~stop[g] /\ held[g] = "live"
    /\ UserGoes(g, "listening", "keying")
    /\ UNCHANGED held
KeepaliveFails(g) ==
    /\ ~stop[g]
    /\ UserGoes(g, "listening", "keying")
    /\ UNCHANGED held

UserEnds(g) ==
    /\ stop[g]
    /\ \E from \in {"keying", "connecting", "listening"} : UserGoes(g, from, "off")
    /\ UNCHANGED held

-----------------------------------------------------------------------------
GatewayInit ==
    /\ current = None
    /\ kept = None
    /\ work = [h \in Requests |-> Idle]
    /\ client = [g \in Gateways |-> FALSE]
    /\ stop = [g \in Gateways |-> TRUE]
    /\ user = [g \in Gateways |-> "off"]
    /\ held = [g \in Gateways |-> "none"]
    /\ overlapped = FALSE

\* The process ends, in good order or not, and starts again.
GatewayRestart ==
    /\ current' = None
    /\ kept' = None
    /\ work' = [h \in Requests |-> Idle]
    /\ client' = [g \in Gateways |-> FALSE]
    /\ stop' = [g \in Gateways |-> TRUE]
    /\ user' = [g \in Gateways |-> "off"]
    /\ held' = [g \in Gateways |-> "none"]
    /\ overlapped' = FALSE

Stopping(h) == Gathered(h) \/ KeyClosed(h) \/ Left(h)
Request(h) ==
    StartRequest(h) \/ StopRequest(h) \/ Opens(h) \/ Created(h) \/ Synced(h)
    \/ Accepted(h) \/ StartFails(h)
User(g) ==
    Keyed(g) \/ KeyRefused(g) \/ UserConnects(g) \/ UserFails(g) \/ KeepaliveFails(g) \/ UserEnds(g)

GatewayNext ==
    \/ LouiseConnects \/ GatewayRestart
    \/ \E h \in Requests : Request(h) \/ Stopping(h)
    \/ \E g \in Gateways : User(g)

\* A keepalive is due every 30 minutes; of the calls that may fail, one of a
\* kind succeeds some day.
Fairness ==
    \A g \in Gateways :
      /\ WF_gatewayVars(KeepaliveFails(g) /\ held[g] = "dead")
      /\ SF_gatewayVars(Keyed(g))
      /\ SF_gatewayVars(UserConnects(g))

GatewaySpec == GatewayInit /\ [][GatewayNext]_gatewayVars /\ Fairness

-----------------------------------------------------------------------------
(* Properties *)

\* Every variable has its type (StateStore, BinanceGateway.__init__).
GatewayTypeOK ==
    /\ {current, kept} \subseteq Gateways \cup {None}
    /\ work \in [Requests ->
         [job : {"none", "start", "replace", "stop", "abort"},
          at : {"idle", "opening", "creating", "syncing", "reading", "gathering", "closing", "leaving"},
          gw : Gateways \cup {None}]]
    /\ client \in [Gateways -> BOOLEAN]
    /\ stop \in [Gateways -> BOOLEAN]
    /\ user \in [Gateways -> {"off", "keying", "connecting", "listening"}]
    /\ held \in [Gateways -> {"none", "live", "dead"}]
    /\ overlapped \in BOOLEAN
    /\ \A h \in Requests : work[h].gw = None <=> work[h].at \in {"idle", "opening"}

\* As long as the requests of the operator come one at a time, no gateway is
\* left running out of reach: its tasks belong to the gateway of the context,
\* to the one Louise keeps, or to a request that is starting or stopping it
\* (gateway_start, gateway_stop, which nothing serialises).
NoneLeftRunning == ~overlapped => \A g \in Gateways :
    Working(g) => g \in {current, kept} \/ \E h \in Requests : work[h].gw = g

\* A running gateway whose listen key was closed by another one of the account
\* hears of the account again, once the operator leaves it alone: the next
\* keepalive fails and the loop asks for a key (_user_data_ws_loop).
HearsAgain == <>[](\A h \in Requests : ~Busy(h)) => \A g \in Gateways :
    []<>(user[g] = "off" \/ stop[g] \/ (user[g] = "listening" /\ held[g] = "live"))
=============================================================================
