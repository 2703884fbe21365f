------------------------------ MODULE Dashboard ------------------------------
(***************************************************************************)
(* What the dashboards are told: the WebSocket connections, the tasks that *)
(* broadcast events to them, and the crime predictions, whose creation and *)
(* resolution are such events.                                             *)
(*                                                                         *)
(* A broadcast awaits each send in turn over a copy of the connections;    *)
(* several broadcasts run at once, clients come and go meanwhile, and a    *)
(* client whose connection broke is found out by the send or by the        *)
(* endpoint that reads from it, whichever is first.  An endpoint may also  *)
(* end with its socket still listed; a send finds that out too.            *)
(*                                                                         *)
(* A list of connections is a set here: clients are appended to it once,   *)
(* and ahead[c] says which of its members come before c.                   *)
(***************************************************************************)
EXTENDS Naturals, Sequences, SequencesExt

CONSTANTS
  Client,          (* sockets; a dashboard that reconnects is a new one     *)
  Neighborhood,
  MaxPredictions   (* bound on the predictions created                      *)

ASSUME DashboardAssumption == IsFiniteSet(Neighborhood) /\ MaxPredictions \in Nat

VARIABLES
  socket,       (* "none", "open", "broken", "gone" (endpoint returned)     *)
  ahead,        (* of each client: those that connected before it           *)
  connections,  (* ConnectionManager._active                                *)
  log,          (* the events for which a broadcast task was created        *)
  casts,        (* the tasks that have begun, which are the first of them:  *)
                (* the clients then connected, those still to be sent the   *)
                (* event, and those the sending failed for                  *)
  heard,        (* the numbers of the events each client was sent           *)
  predictions,  (* OrchestratorAgent.active_crime_predictions: id -> place  *)
  tracked,      (* EmergencyGenerator.active_predictions: place -> id       *)
  created       (* the number of predictions created                        *)

linkVars == <<socket, ahead, connections, heard>>
predictionVars == <<predictions, tracked, created>>
dashVars == <<linkVars, log, casts, predictionVars>>

Id == 1..MaxPredictions
Created(id) == [kind |-> "created", id |-> id]
Resolved(id) == [kind |-> "resolved", id |-> id]
Event == {Created(id) : id \in Id} \cup {Resolved(id) : id \in Id} \cup {[kind |-> "telemetry"]}
Broadcast == [audience : SUBSET Client, to : SUBSET Client, dead : SUBSET Client]
-----------------------------------------------------------------------------
(* Connections.                                                             *)

ConnectUnaccepted(c) ==                                     (* a mutant *)
  /\ socket[c] = "none" /\ c \notin connections
  /\ connections' = connections \cup {c}
  /\ UNCHANGED <<socket, ahead, log, casts, heard, predictionVars>>

(* websocket_endpoint up to its wait for the client: connect.               *)
Connect(c) ==
  /\ socket[c] = "none"
  /\ socket' = [socket EXCEPT ![c] = "open"]
  /\ ahead' = [ahead EXCEPT ![c] = {d \in Client : socket[d] # "none"}]
  /\ connections' = connections \cup {c}
  /\ UNCHANGED <<log, casts, heard, predictionVars>>

(* The network or the browser ends the connection; nobody knows yet.        *)
Break(c) ==
  /\ socket[c] = "open"
  /\ socket' = [socket EXCEPT ![c] = "broken"]
  /\ UNCHANGED <<ahead, connections, log, casts, heard, predictionVars>>

(* WebSocketDisconnect in the endpoint: disconnect, if it is still listed.  *)
Disconnected(c) ==
  /\ socket[c] = "broken"
  /\ socket' = [socket EXCEPT ![c] = "gone"]
  /\ connections' = connections \ {c}
  /\ UNCHANGED <<ahead, log, casts, heard, predictionVars>>

(* The endpoint ends in another way, for which it has no handler: a frame   *)
(* that receive_text cannot take, a receive after a send that failed, its   *)
(* cancellation.  The socket is closed, and listed as before.               *)
EndpointFails(c) ==
  /\ socket[c] \in {"open", "broken"}
  /\ socket' = [socket EXCEPT ![c] = "gone"]
  /\ UNCHANGED <<ahead, connections, log, casts, heard, predictionVars>>

-----------------------------------------------------------------------------
(* ConnectionManager.broadcast.                                             *)

(* Up to the first send: the list is copied; if it is empty the task ends.  *)
StartBroadcast ==
  /\ Len(casts) < Len(log)
  /\ casts' = Append(casts, [audience |-> connections, to |-> connections, dead |-> {}])
  /\ UNCHANGED <<linkVars, log, predictionVars>>

(* Client c is the one that task k is sending to.                           *)
Awaits(k, c) == c \in casts[k].to /\ casts[k].to \cap ahead[c] = {}

TurnUnordered(k, c) == c \in casts[k].to                    (* a mutant *)

(* The sends to one client are answered in the order they were asked for:   *)
(* that of the broadcasts, unless one was held up before by somebody who    *)
(* has left meanwhile.                                                      *)
Turn(k, c) ==
  /\ Awaits(k, c)
  /\ \A j \in 1..(k - 1) : Awaits(j, c) =>
       \E d \in casts[j].audience \cap (ahead[c] \cup {c}) : socket[d] # "open"

(* A mutant: the loop runs over the list itself, and removes from it.       *)
GoOnLive(k, c, dead) ==
  LET rest == casts[k].to \ {c}
      next == IF c \in dead THEN {d \in rest : rest \cap ahead[d] # {}} ELSE rest IN
  /\ casts' = [casts EXCEPT ![k].to = next, ![k].dead = {}]
  /\ connections' = connections \ dead

(* The broadcast goes on: to the next client, or, after the last one, to    *)
(* the removal of those whose send failed.                                  *)
GoOn(k, c, dead) ==
  LET rest == casts[k].to \ {c} IN
  IF rest # {}
  THEN /\ casts' = [casts EXCEPT ![k].to = rest, ![k].dead = dead]
       /\ UNCHANGED connections
  ELSE /\ casts' = [casts EXCEPT ![k].to = {}, ![k].dead = {}]
       /\ connections' = connections \ dead

Send(k, c) ==
  /\ Turn(k, c)
  /\ IF socket[c] = "open"
     THEN heard' = [heard EXCEPT ![c] = Append(@, k)] /\ GoOn(k, c, casts[k].dead)
     ELSE GoOn(k, c, casts[k].dead \cup {c}) /\ UNCHANGED heard
  /\ UNCHANGED <<socket, ahead, log, predictionVars>>

(* create_task(_ws_broadcast(...)) for each of the events.                  *)
Spawn(events) == log' = log \o events

-----------------------------------------------------------------------------
(* EmergencyGenerator._generate_predictive_emergencies.                     *)

(* The active ones among the predictions whose place is at risk no longer.  *)
Expired(risky) == {tracked[h] : h \in DOMAIN tracked \ risky} \cap DOMAIN predictions

ResolveSilently(ids) == <<>>                                (* a mutant *)

(* The events of resolve_crime_prediction for each of these.                *)
Resolutions(ids) == [i \in DOMAIN ids |-> Resolved(ids[i])]

(* active_predictions after a round that created a prediction for each of   *)
(* fresh.                                                                   *)
TrackedStill(risky, fresh) ==                               (* a mutant *)
  [h \in risky \cup DOMAIN tracked |->
     IF h \in DOMAIN tracked THEN tracked[h]
     ELSE created + CHOOSE i \in DOMAIN fresh : fresh[i] = h]

Tracked(risky, fresh) ==
  [h \in risky |-> IF h \in DOMAIN tracked THEN tracked[h]
                   ELSE created + CHOOSE i \in DOMAIN fresh : fresh[i] = h]

(* A round.  risky: the places that predict_current_risk returns, at or     *)
(* above the threshold and evaluated without an error.  Predictions of      *)
(* other places are resolved, new ones created where there is none, in the  *)
(* order of a set and of a list; nothing in a round gives way to another    *)
(* task.                                                                    *)
Round(risky) ==
  \E expired \in SetToSeqs(Expired(risky)), fresh \in SetToSeqs(risky \ DOMAIN tracked) :
    LET new == (created + 1)..(created + Len(fresh)) IN
    /\ created + Len(fresh) <= MaxPredictions
    /\ created' = created + Len(fresh)
    /\ predictions' = [id \in (DOMAIN predictions \ Range(expired)) \cup new |->
                         IF id > created THEN fresh[id - created] ELSE predictions[id]]
    /\ tracked' = Tracked(risky, fresh)
    /\ Spawn(Resolutions(expired) \o [i \in DOMAIN fresh |-> Created(created + i)])
    /\ UNCHANGED <<linkVars, casts>>

-----------------------------------------------------------------------------

DashInit ==
  /\ socket = [c \in Client |-> "none"]
  /\ ahead = [c \in Client |-> {}]
  /\ connections = {}
  /\ log = <<>>
  /\ casts = <<>>
  /\ heard = [c \in Client |-> <<>>]
  /\ predictions = <<>>
  /\ tracked = <<>>
  /\ created = 0

LinkStep(c) == Connect(c) \/ Break(c) \/ Disconnected(c) \/ EndpointFails(c)
CastStep == StartBroadcast \/ \E k \in DOMAIN casts : \E c \in casts[k].to : Send(k, c)

-----------------------------------------------------------------------------
(* Properties.                                                              *)

(* Every component of the dashboards' state keeps its type; only sockets    *)
(* that were accepted are listed.                                           *)
DashTypeOK ==
  /\ socket \in [Client -> {"none", "open", "broken", "gone"}]
  /\ ahead \in [Client -> SUBSET Client]
  /\ connections \subseteq {c \in Client : socket[c] # "none"}
  /\ log \in Seq(Event)
  /\ casts \in Seq(Broadcast)
  /\ Len(casts) <= Len(log)
  /\ heard \in [Client -> Seq(Nat)]
  /\ created \in 0..MaxPredictions
  /\ DOMAIN predictions \subseteq 1..created
  /\ predictions \in [DOMAIN predictions -> Neighborhood]
  /\ DOMAIN tracked \subseteq Neighborhood

Over(k) == casts[k].to = {}

(* Broadcasts run across each other while clients leave and come, and still *)
(* each event reaches each client once: every socket that was listed when   *)
(* its broadcast began and still is when it is over has heard it, so that a *)
(* dead one which its endpoint left listed is gone from the list after the  *)
(* next broadcast; none has heard an event twice, and no client that is     *)
(* still there is dropped from the connections.                             *)
HeardOnce ==
  /\ \A c \in Client : IsInjective(heard[c])
  /\ \A k \in DOMAIN casts : Over(k) =>
       \A c \in casts[k].audience : c \in connections => k \in Range(heard[c])
  /\ \A c \in Client : socket[c] = "open" => c \in connections

(* The generator and the orchestrator, each with a dictionary of its own,   *)
(* agree on what is predicted: the same predictions, one for each place.    *)
PredictionsAgree ==
  /\ Range(tracked) = DOMAIN predictions
  /\ \A h \in DOMAIN tracked : predictions[tracked[h]] = h

Told(c, event) == \E k \in Range(heard[c]) : log[k] = event

(* A dashboard that follows the events sees what is predicted: when no      *)
(* event is on its way, a client that has heard of the creation of a        *)
(* prediction holds it active exactly if it is.  The creation of each is    *)
(* announced before its resolution.                                         *)
PictureIsTrue ==
  /\ Len(casts) = Len(log) /\ (\A k \in DOMAIN casts : Over(k)) =>
       \A c \in connections, id \in 1..created :
         socket[c] = "open" /\ Told(c, Created(id)) =>
           (Told(c, Resolved(id)) <=> id \notin DOMAIN predictions)
  /\ \A j, k \in DOMAIN log, id \in Id :
       log[j] = Created(id) /\ log[k] = Resolved(id) => j < k

(* Events arrive in the order in which their tasks were created, although   *)
(* no broadcast waits for another: a client is told of a later event before *)
(* an earlier one only if the earlier broadcast had to send to somebody who *)
(* connected before that client and has left.                               *)
HeardInOrder ==
  \A c \in Client : \A i, j \in DOMAIN heard[c] :
    i < j /\ heard[c][i] > heard[c][j] =>
      \E d \in casts[heard[c][j]].audience \cap ahead[c] : socket[d] # "open"
=============================================================================
