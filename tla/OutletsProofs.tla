---------------------------- MODULE OutletsProofs ----------------------------
(***************************************************************************)
(* What the dashboards are told, for any number of clients, places and     *)
(* predictions, next to the sink and through the teardown.  The invariant  *)
(* has a part for the connections, one for what each broadcast has done,   *)
(* one for the order of broadcasts, and one for the predictions.           *)
(***************************************************************************)
EXTENDS Outlets, TelemetrySinkProofs, FiniteSetTheorems

-----------------------------------------------------------------------------
(* The invariant.                                                           *)

(* A client that is there is connected; those ahead of it had connected,    *)
(* and so had those ahead of them; a broadcast is for clients that had      *)
(* connected, gives up only on some that are no longer there, and has       *)
(* delisted these when it is over.                                          *)
Linked ==
  /\ \A c \in Client : socket[c] = "open" => c \in connections
  /\ \A c \in Client : \A d \in ahead[c] : socket[d] # "none" /\ ahead[d] \subseteq ahead[c]
  /\ \A k \in DOMAIN casts :
       /\ casts[k].to \cup casts[k].dead \subseteq casts[k].audience
       /\ \A c \in casts[k].audience : socket[c] # "none"
       /\ \A c \in casts[k].dead : socket[c] # "open"
       /\ casts[k].to = {} => casts[k].dead = {}

(* A client has heard what was sent to it; one that a broadcast has been    *)
(* past has heard it, or is to be delisted, or is not listed any more; and  *)
(* a client that is there is in the audience of every broadcast that began  *)
(* after another of which it was.                                           *)
Delivered ==
  /\ \A c \in Client : IsInjective(heard[c])
  /\ \A c \in Client : \A k \in Range(heard[c]) :
       k \in DOMAIN casts /\ c \in casts[k].audience \ casts[k].to
  /\ \A k \in DOMAIN casts : \A c \in casts[k].audience \ casts[k].to :
       k \in Range(heard[c]) \/ c \in casts[k].dead \/ c \notin connections
  /\ \A j, k \in DOMAIN casts : \A c \in casts[j].audience :
       j < k /\ socket[c] = "open" => c \in casts[k].audience

(* As long as nobody of its audience up to a client has left, no later      *)
(* broadcast is past that client if it is not itself.                       *)
AllAhead(k, c) == \A d \in casts[k].audience \cap (ahead[c] \cup {c}) : socket[d] = "open"
InStep ==
  \A j, k \in DOMAIN casts : \A c \in casts[j].to :
    j < k /\ AllAhead(j, c) => c \in casts[k].to

(* The resolved predictions are those that are not active.                  *)
Announced ==
  /\ \A k \in DOMAIN log, id \in Id :
       log[k] \in {Created(id), Resolved(id)} => id <= created
  /\ \A j, k \in DOMAIN log, id \in Id :
       log[j] = Created(id) /\ log[k] = Resolved(id) => j < k
  /\ \A id \in 1..created :
       (\E k \in DOMAIN log : log[k] = Resolved(id)) <=> id \notin DOMAIN predictions

DashInv ==
  /\ DashTypeOK
  /\ Linked
  /\ Delivered
  /\ InStep /\ HeardInOrder
  /\ PredictionsAgree
  /\ Announced
(* Nobody is connected, and nothing is predicted.                           *)
LEMMA DashStarts == OutletsInit => DashInv
<1> SUFFICES ASSUME OutletsInit PROVE DashInv
  OBVIOUS
<1>1. /\ socket = [c \in Client |-> "none"] /\ ahead = [c \in Client |-> {}]
      /\ connections = {} /\ log = <<>> /\ casts = <<>>
      /\ heard = [c \in Client |-> <<>>]
      /\ predictions = <<>> /\ tracked = <<>> /\ created = 0
  BY DEF OutletsInit, DashInit
<1>2. Range(tracked) = {} /\ DOMAIN predictions = {} /\ DOMAIN tracked = {}
  BY <1>1 DEF Range
<1>3. DashTypeOK
  <2>1. predictions \in [DOMAIN predictions -> Neighborhood]
    BY <1>1
  <2> QED  BY <1>1, <1>2, <2>1, DashboardAssumption DEF DashTypeOK
<1>4. Linked
  BY <1>1 DEF Linked
<1>5. Delivered
  BY <1>1, NoMembers DEF Delivered
<1>6. InStep /\ HeardInOrder
  BY <1>1 DEF InStep, HeardInOrder
<1>7. PredictionsAgree
  BY <1>2 DEF PredictionsAgree
<1>8. Announced
  BY <1>1 DEF Announced
<1> QED  BY <1>3, <1>4, <1>5, <1>6, <1>7, <1>8 DEF DashInv

(* What the types say of a broadcast.                                       *)
LEMMA CastTypes ==
  ASSUME DashTypeOK
  PROVE  /\ DOMAIN casts = 1..Len(casts) /\ Len(casts) \in Nat
         /\ DOMAIN log = 1..Len(log) /\ Len(log) \in Nat /\ Len(casts) <= Len(log)
         /\ \A k \in DOMAIN casts :
              /\ casts[k] \in Broadcast
              /\ casts[k].audience \subseteq Client
              /\ casts[k].to \subseteq Client
              /\ casts[k].dead \subseteq Client
<1>1. casts \in Seq(Broadcast) /\ log \in Seq(Event) /\ Len(casts) <= Len(log)
  BY DEF DashTypeOK
<1>2. /\ DOMAIN casts = 1..Len(casts) /\ Len(casts) \in Nat
      /\ \A k \in DOMAIN casts : casts[k] \in Broadcast
  BY <1>1
<1>3. DOMAIN log = 1..Len(log) /\ Len(log) \in Nat
  BY <1>1
<1>4. \A r \in Broadcast :
        r.audience \subseteq Client /\ r.to \subseteq Client /\ r.dead \subseteq Client
  BY DEF Broadcast
<1> QED  BY <1>1, <1>2, <1>3, <1>4

-----------------------------------------------------------------------------
(* Connections.                                                             *)

(* Coming, breaking and leaving touch no broadcast: a client that is there  *)
(* afterwards either was there before or is new and in no audience.         *)
LEMMA LinkKeeps ==
  ASSUME DashInv, NEW c \in Client, LinkStep(c)
  PROVE  DashInv'
<1>1. UNCHANGED <<log, casts, heard, predictions, tracked, created>>
  BY DEF LinkStep, Connect, Break, Disconnected, EndpointFails, predictionVars
<1>2. /\ socket \in [Client -> {"none", "open", "broken", "gone"}]
      /\ socket' \in [Client -> {"none", "open", "broken", "gone"}]
      /\ ahead' \in [Client -> SUBSET Client]
  BY DEF DashInv, DashTypeOK, LinkStep, Connect, Break, Disconnected, EndpointFails
<1>3. \A d \in Client :
        /\ socket[d] # "none" => socket'[d] # "none"
        /\ socket[d] # "none" /\ socket'[d] = "open" => socket[d] = "open"
        /\ socket[d] # "none" => ahead'[d] = ahead[d]
        /\ socket[d] # "none" /\ d \in connections' => d \in connections
  BY <1>2 DEF LinkStep, Connect, Break, Disconnected, EndpointFails, DashInv, DashTypeOK
<1>4. /\ connections' \subseteq {d \in Client : socket'[d] # "none"}
      /\ \A d \in Client : socket'[d] = "open" => d \in connections'
  <2>1. /\ connections \subseteq {d \in Client : socket[d] # "none"}
        /\ \A d \in Client : socket[d] = "open" => d \in connections
    BY DEF DashInv, DashTypeOK, Linked
  <2>2. CASE Connect(c)
    BY <1>2, <2>1, <2>2 DEF Connect
  <2>3. CASE Break(c)
    BY <1>2, <2>1, <2>3 DEF Break
  <2>4. CASE Disconnected(c)
    BY <1>2, <2>1, <2>4 DEF Disconnected
  <2>5. CASE EndpointFails(c)
    BY <1>2, <2>1, <2>5 DEF EndpointFails
  <2> QED  BY <2>2, <2>3, <2>4, <2>5 DEF LinkStep
<1>5. DashTypeOK'
  BY <1>1, <1>2, <1>4 DEF DashInv, DashTypeOK
<1>6. \A k \in DOMAIN casts :
        /\ casts[k].to \cup casts[k].dead \subseteq casts[k].audience
        /\ casts[k].audience \subseteq Client
        /\ \A d \in casts[k].audience : socket[d] # "none"
        /\ \A d \in casts[k].dead : socket[d] # "open"
        /\ casts[k].to = {} => casts[k].dead = {}
  BY CastTypes DEF DashInv, Linked
<1>7. Linked'
  <2>1. ASSUME NEW k \in DOMAIN casts
        PROVE  /\ \A d \in casts[k].audience : socket'[d] # "none"
               /\ \A d \in casts[k].dead : socket'[d] # "open"
    <3>1. \A d \in casts[k].audience : socket'[d] # "none"
      BY <1>3, <1>6
    <3>2. \A d \in casts[k].dead : socket[d] # "none" /\ socket[d] # "open"
      BY <1>6
    <3> QED  BY <1>3, <1>6, <3>1, <3>2
  <2>2. \A d \in Client : \A e \in ahead[d] :
          e \in Client /\ socket[e] # "none" /\ ahead[e] \subseteq ahead[d]
    BY DEF DashInv, DashTypeOK, Linked
  <2>3. ASSUME NEW d \in Client, NEW e \in ahead'[d]
        PROVE  socket'[e] # "none" /\ ahead'[e] \subseteq ahead'[d]
    <3>1. CASE ahead'[d] = ahead[d]
      BY <1>3, <2>2, <3>1
    <3>2. CASE ahead'[d] # ahead[d]
      <4>1. Connect(c) /\ d = c
        BY <1>2, <3>2 DEF LinkStep, Connect, Break, Disconnected, EndpointFails, DashInv, DashTypeOK
      <4>2. ahead'[c] = {x \in Client : socket[x] # "none"}
        BY <4>1 DEF Connect, DashInv, DashTypeOK
      <4>3. e \in Client /\ socket[e] # "none" /\ ahead'[e] = ahead[e] /\ socket'[e] # "none"
        BY <1>3, <4>1, <4>2
      <4> QED  BY <1>2, <2>2, <4>1, <4>2, <4>3 DEF DashInv, DashTypeOK
    <3> QED  BY <3>1, <3>2
  <2> QED  BY <1>1, <1>4, <1>6, <2>1, <2>3 DEF Linked
<1>8. Delivered'
  BY <1>1, <1>3, <1>6 DEF DashInv, Delivered
<1>9. InStep'
  <2> SUFFICES ASSUME NEW j \in DOMAIN casts, NEW k \in DOMAIN casts, NEW d \in casts[j].to,
                      j < k, AllAhead(j, d)'
               PROVE  d \in casts[k].to
    BY <1>1 DEF InStep
  <2>1. d \in Client /\ socket[d] # "none" /\ ahead'[d] = ahead[d]
    BY <1>3, <1>6
  <2>2. AllAhead(j, d)
    BY <1>1, <1>3, <1>6, <2>1 DEF AllAhead
  <2> QED  BY <2>2 DEF DashInv, InStep
<1>10. HeardInOrder'
  <2> SUFFICES ASSUME NEW d \in Client, NEW i \in DOMAIN heard[d], NEW j \in DOMAIN heard[d],
                      i < j, heard[d][i] > heard[d][j]
               PROVE  \E e \in casts[heard[d][j]].audience \cap ahead'[d] : socket'[e] # "open"
    BY <1>1 DEF HeardInOrder
  <2>1. heard[d][j] \in DOMAIN casts /\ d \in casts[heard[d][j]].audience
    BY DEF DashInv, Delivered, Range
  <2>2. socket[d] # "none" /\ ahead'[d] = ahead[d]
    BY <1>3, <1>6, <2>1
  <2>3. PICK e \in casts[heard[d][j]].audience \cap ahead[d] : socket[e] # "open"
    BY DEF DashInv, HeardInOrder
  <2> QED  BY <1>3, <1>6, <2>1, <2>2, <2>3
<1>11. PredictionsAgree' /\ Announced'
  BY <1>1 DEF DashInv, PredictionsAgree, Announced
<1> QED  BY <1>5, <1>7, <1>8, <1>9, <1>10, <1>11 DEF DashInv

-----------------------------------------------------------------------------
(* Broadcasts.                                                              *)

(* A broadcast that begins is for everybody who is there, so for everybody  *)
(* who is still to hear an earlier one.                                     *)
LEMMA StartKeeps ==
  ASSUME DashInv, StartBroadcast
  PROVE  DashInv'
<1> DEFINE n == Len(casts) + 1
           r == [audience |-> connections, to |-> connections, dead |-> {}]
<1>1. /\ Len(casts) < Len(log)
      /\ casts' = Append(casts, r)
      /\ UNCHANGED <<socket, ahead, connections, heard, log, predictions, tracked, created>>
  BY DEF StartBroadcast, linkVars, predictionVars
<1>2. /\ DOMAIN casts = 1..Len(casts) /\ Len(casts) \in Nat
      /\ DOMAIN log = 1..Len(log) /\ Len(log) \in Nat
      /\ casts \in Seq(Broadcast)
      /\ \A k \in DOMAIN casts : casts[k].audience \subseteq Client
  BY CastTypes DEF DashInv, DashTypeOK
<1>3. /\ connections \subseteq Client
      /\ \A c \in connections : socket[c] # "none"
      /\ \A c \in Client : socket[c] = "open" => c \in connections
  BY DEF DashInv, DashTypeOK, Linked
<1>4. r \in Broadcast /\ r.audience = connections /\ r.to = connections /\ r.dead = {}
  BY <1>3 DEF Broadcast
<1> HIDE DEF r
<1>5. /\ casts' \in Seq(Broadcast) /\ Len(casts') = n
      /\ DOMAIN casts' = 1..n
      /\ casts'[n] = r
      /\ \A k \in DOMAIN casts : casts'[k] = casts[k]
  BY <1>1, <1>2, <1>4
<1>6. DashTypeOK'
  BY <1>1, <1>2, <1>5 DEF DashInv, DashTypeOK
<1>7. Linked'
  BY <1>1, <1>2, <1>3, <1>4, <1>5 DEF DashInv, Linked
<1>8. Delivered'
  <2>1. \A c \in Client : IsInjective(heard[c])
    BY DEF DashInv, Delivered
  <2>2. \A c \in Client : \A k \in Range(heard[c]) :
          k \in DOMAIN casts' /\ c \in casts'[k].audience \ casts'[k].to
    BY <1>2, <1>5 DEF DashInv, Delivered
  <2>3. \A k \in DOMAIN casts' : \A c \in casts'[k].audience \ casts'[k].to :
          k \in Range(heard[c]) \/ c \in casts'[k].dead \/ c \notin connections
    BY <1>2, <1>4, <1>5 DEF DashInv, Delivered
  <2>4. \A j, k \in DOMAIN casts' : \A c \in casts'[j].audience :
          j < k /\ socket[c] = "open" => c \in casts'[k].audience
    <3> SUFFICES ASSUME NEW j \in DOMAIN casts', NEW k \in DOMAIN casts',
                        NEW c \in casts'[j].audience, j < k, socket[c] = "open"
                 PROVE  c \in casts'[k].audience
      OBVIOUS
    <3>1. j \in DOMAIN casts /\ casts'[j] = casts[j] /\ c \in Client
      BY <1>2, <1>5
    <3>2. CASE k = n
      BY <1>3, <1>4, <1>5, <3>1, <3>2
    <3>3. CASE k # n
      <4>1. k \in DOMAIN casts /\ casts'[k] = casts[k]
        BY <1>2, <1>5, <3>3
      <4> QED  BY <3>1, <4>1 DEF DashInv, Delivered
    <3> QED  BY <3>2, <3>3
  <2> QED  BY <1>1, <2>1, <2>2, <2>3, <2>4 DEF Delivered
<1>9. InStep'
  <2> SUFFICES ASSUME NEW j \in DOMAIN casts', NEW k \in DOMAIN casts',
                      NEW c \in casts'[j].to, j < k, AllAhead(j, c)'
               PROVE  c \in casts'[k].to
    BY DEF InStep
  <2>1. j \in DOMAIN casts /\ casts'[j] = casts[j]
    BY <1>2, <1>5
  <2>2. AllAhead(j, c)
    BY <1>1, <2>1 DEF AllAhead
  <2>3. CASE k = n
    <3>1. c \in casts[j].audience /\ c \in Client
      BY <1>2, <2>1 DEF DashInv, Linked
    <3>2. socket[c] = "open"
      BY <2>2, <3>1 DEF AllAhead
    <3> QED  BY <1>3, <1>4, <1>5, <2>3, <3>1, <3>2
  <2>4. CASE k # n
    <3>1. k \in DOMAIN casts /\ casts'[k] = casts[k]
      BY <1>2, <1>5, <2>4
    <3> QED  BY <2>1, <2>2, <3>1 DEF DashInv, InStep
  <2> QED  BY <2>3, <2>4
<1>10. HeardInOrder'
  <2>1. \A c \in Client : \A i \in DOMAIN heard[c] : heard[c][i] \in DOMAIN casts
    BY DEF DashInv, Delivered, Range
  <2>2. \A k \in DOMAIN casts : casts'[k].audience = casts[k].audience
    BY <1>5
  <2> QED  BY <1>1, <2>1, <2>2 DEF DashInv, HeardInOrder
<1>11. PredictionsAgree' /\ Announced'
  BY <1>1 DEF DashInv, PredictionsAgree, Announced
<1> QED  BY <1>6, <1>7, <1>8, <1>9, <1>10, <1>11 DEF DashInv

(* What a send does: its client is no longer to be sent the event, and has  *)
(* heard it if it is there, and else is given up; those that the loop or    *)
(* its end gives up are not there, and the end delists them.                *)
LEMMA SendDoes ==
  ASSUME DashTypeOK, Linked, NEW k \in DOMAIN casts, NEW c \in casts[k].to, Send(k, c)
  PROVE  /\ casts' \in Seq(Broadcast) /\ DOMAIN casts' = DOMAIN casts /\ Len(casts') = Len(casts)
         /\ \A j \in DOMAIN casts \ {k} : casts'[j] = casts[j]
         /\ casts'[k].audience = casts[k].audience
         /\ casts'[k].to = casts[k].to \ {c}
         /\ casts'[k].dead \subseteq casts[k].audience
         /\ \A d \in casts'[k].dead : socket[d] # "open"
         /\ \A d \in casts[k].dead : d \in casts'[k].dead \/ d \notin connections'
         /\ socket[c] # "open" => c \in casts'[k].dead \/ c \notin connections'
         /\ casts'[k].to = {} => casts'[k].dead = {}
         /\ connections' \subseteq connections
         /\ \A d \in connections \ connections' : socket[d] # "open"
         /\ \/ socket[c] = "open" /\ heard' = [heard EXCEPT ![c] = Append(heard[c], k)]
            \/ socket[c] # "open" /\ heard' = heard
<1>1. /\ casts[k] \in Broadcast
      /\ casts \in Seq(Broadcast) /\ DOMAIN casts = 1..Len(casts)
      /\ casts[k].to \cup casts[k].dead \subseteq casts[k].audience
      /\ \A d \in casts[k].dead : socket[d] # "open"
  BY CastTypes DEF DashTypeOK, Linked
<1>2. PICK dead \in SUBSET casts[k].audience :
        /\ GoOn(k, c, dead)
        /\ \A d \in dead : socket[d] # "open"
        /\ casts[k].dead \subseteq dead
        /\ socket[c] # "open" => c \in dead
        /\ \/ socket[c] = "open" /\ heard' = [heard EXCEPT ![c] = Append(heard[c], k)]
           \/ socket[c] # "open" /\ heard' = heard
  <2>1. CASE socket[c] = "open"
    BY <1>1, <2>1 DEF Send
  <2>2. CASE socket[c] # "open"
    <3>1. casts[k].dead \cup {c} \in SUBSET casts[k].audience
      BY <1>1
    <3> QED  BY <1>1, <2>2, <3>1 DEF Send
  <2> QED  BY <2>1, <2>2
<1> DEFINE r(dd) == [casts[k] EXCEPT !.to = casts[k].to \ {c}, !.dead = dd]
<1>3. PICK dd \in {dead, {}} :
        /\ casts' = [casts EXCEPT ![k] = r(dd)]
        /\ \/ dd = dead /\ connections' = connections /\ casts[k].to \ {c} # {}
           \/ dd = {} /\ connections' = connections \ dead
  <2>1. CASE casts[k].to \ {c} # {}
    BY <1>1, <1>2, <2>1 DEF GoOn
  <2>2. CASE casts[k].to \ {c} = {}
    BY <1>1, <1>2, <2>2 DEF GoOn
  <2> QED  BY <2>1, <2>2
<1>4. /\ r(dd) \in Broadcast
      /\ r(dd).audience = casts[k].audience
      /\ r(dd).to = casts[k].to \ {c}
      /\ r(dd).dead = dd
  BY <1>1, <1>2 DEF Broadcast
<1> HIDE DEF r
<1>5. /\ casts' \in Seq(Broadcast) /\ DOMAIN casts' = DOMAIN casts /\ Len(casts') = Len(casts)
      /\ casts'[k] = r(dd)
      /\ \A j \in DOMAIN casts \ {k} : casts'[j] = casts[j]
  BY <1>1, <1>3, <1>4
<1> QED  BY <1>2, <1>3, <1>4, <1>5

(* A send to a client that is there comes when every earlier broadcast is   *)
(* past it, for a broadcast that is not past it waits for it as soon as a   *)
(* later one does.                                                          *)
LEMMA SendKeeps ==
  ASSUME DashInv, NEW k \in DOMAIN casts, NEW c \in casts[k].to, Send(k, c)
  PROVE  DashInv'
<1>1. /\ casts' \in Seq(Broadcast) /\ DOMAIN casts' = DOMAIN casts /\ Len(casts') = Len(casts)
      /\ \A j \in DOMAIN casts \ {k} : casts'[j] = casts[j]
      /\ casts'[k].audience = casts[k].audience
      /\ casts'[k].to = casts[k].to \ {c}
      /\ casts'[k].dead \subseteq casts[k].audience
      /\ \A d \in casts'[k].dead : socket[d] # "open"
      /\ \A d \in casts[k].dead : d \in casts'[k].dead \/ d \notin connections'
      /\ socket[c] # "open" => c \in casts'[k].dead \/ c \notin connections'
      /\ casts'[k].to = {} => casts'[k].dead = {}
      /\ connections' \subseteq connections
      /\ \A d \in connections \ connections' : socket[d] # "open"
      /\ \/ socket[c] = "open" /\ heard' = [heard EXCEPT ![c] = Append(heard[c], k)]
         \/ socket[c] # "open" /\ heard' = heard
  BY SendDoes DEF DashInv
<1>2. /\ UNCHANGED <<socket, ahead, log, predictions, tracked, created>>
      /\ Turn(k, c)
  BY DEF Send, predictionVars
<1>3. /\ DOMAIN casts = 1..Len(casts) /\ Len(casts) \in Nat /\ k \in Nat
      /\ \A j \in DOMAIN casts :
           /\ casts[j].audience \subseteq Client
           /\ casts[j].to \cup casts[j].dead \subseteq casts[j].audience
      /\ c \in Client /\ c \in casts[k].audience
      /\ heard \in [Client -> Seq(Nat)]
  BY CastTypes DEF DashInv, DashTypeOK, Linked
<1>4. \A j \in DOMAIN casts :
        /\ casts'[j].audience = casts[j].audience
        /\ casts'[j].to = IF j = k THEN casts[k].to \ {c} ELSE casts[j].to
  BY <1>1
<1>5. /\ heard' \in [Client -> Seq(Nat)]
      /\ \A d \in Client : Range(heard'[d]) =
           Range(heard[d]) \cup IF d = c /\ socket[c] = "open" THEN {k} ELSE {}
      /\ \A d \in Client : IsInjective(heard'[d])
  <2>1. k \notin Range(heard[c]) /\ \A d \in Client : IsInjective(heard[d])
    BY <1>3 DEF DashInv, Delivered
  <2>2. /\ Append(heard[c], k) \in Seq(Nat)
        /\ Range(Append(heard[c], k)) = Range(heard[c]) \cup {k}
        /\ IsInjective(Append(heard[c], k))
    <3>1. heard[c] \in Seq(Nat)
      BY <1>3
    <3> QED  BY <1>3, <2>1, <3>1, AppendMembers
  <2>3. CASE socket[c] = "open"
    <3>1. /\ heard' \in [Client -> Seq(Nat)]
          /\ heard'[c] = Append(heard[c], k)
          /\ \A d \in Client \ {c} : heard'[d] = heard[d]
      <4> DEFINE new == Append(heard[c], k)
      <4>1. heard' = [heard EXCEPT ![c] = new] /\ new \in Seq(Nat)
        BY <1>1, <2>2, <2>3
      <4> HIDE DEF new
      <4>2. heard'[c] = new /\ heard' \in [Client -> Seq(Nat)]
        BY <1>3, <4>1
      <4>3. \A d \in Client \ {c} : heard'[d] = heard[d]
        BY <1>3, <4>1
      <4> QED  BY <4>2, <4>3 DEF new
    <3>2. /\ Range(heard'[c]) = Range(heard[c]) \cup {k}
          /\ IsInjective(heard'[c])
      BY <2>2, <3>1
    <3>3. \A d \in Client \ {c} :
            Range(heard'[d]) = Range(heard[d]) /\ IsInjective(heard'[d])
      BY <2>1, <3>1
    <3> QED  BY <2>3, <3>1, <3>2, <3>3
  <2>4. CASE socket[c] # "open"
    BY <1>1, <1>3, <2>1, <2>4
  <2> QED  BY <2>3, <2>4
<1>6. DashTypeOK'
  BY <1>1, <1>2, <1>5 DEF DashInv, DashTypeOK
<1>7. Linked'
  <2>1. \A d \in Client : socket[d] = "open" => d \in connections'
    BY <1>1 DEF DashInv, Linked
  <2>2. \A j \in DOMAIN casts :
          /\ casts'[j].to \cup casts'[j].dead \subseteq casts'[j].audience
          /\ \A d \in casts'[j].audience : socket[d] # "none"
          /\ \A d \in casts'[j].dead : socket[d] # "open"
          /\ casts'[j].to = {} => casts'[j].dead = {}
    <3> SUFFICES ASSUME NEW j \in DOMAIN casts
                 PROVE  /\ casts'[j].to \cup casts'[j].dead \subseteq casts'[j].audience
                        /\ \A d \in casts'[j].audience : socket[d] # "none"
                        /\ \A d \in casts'[j].dead : socket[d] # "open"
                        /\ casts'[j].to = {} => casts'[j].dead = {}
      OBVIOUS
    <3>1. CASE j = k
      BY <1>1, <1>3, <3>1 DEF DashInv, Linked
    <3>2. CASE j # k
      BY <1>1, <3>2 DEF DashInv, Linked
    <3> QED  BY <3>1, <3>2
  <2>3. \A d \in Client : \A e \in ahead[d] : socket[e] # "none" /\ ahead[e] \subseteq ahead[d]
    BY DEF DashInv, Linked
  <2> QED  BY <1>1, <1>2, <2>1, <2>2, <2>3 DEF Linked
<1>8. Delivered'
  <2>1. \A d \in Client : \A m \in Range(heard'[d]) :
          m \in DOMAIN casts /\ d \in casts'[m].audience \ casts'[m].to
    <3> SUFFICES ASSUME NEW d \in Client, NEW m \in Range(heard'[d])
                 PROVE  m \in DOMAIN casts /\ d \in casts'[m].audience \ casts'[m].to
      OBVIOUS
    <3>1. CASE m \in Range(heard[d])
      BY <1>4, <3>1 DEF DashInv, Delivered
    <3>2. CASE m \notin Range(heard[d])
      <4>1. d = c /\ m = k
        BY <1>5, <3>2
      <4> QED  BY <1>3, <1>4, <4>1
    <3> QED  BY <3>1, <3>2
  <2>2. \A m \in DOMAIN casts : \A d \in casts'[m].audience \ casts'[m].to :
          m \in Range(heard'[d]) \/ d \in casts'[m].dead \/ d \notin connections'
    <3> SUFFICES ASSUME NEW m \in DOMAIN casts, NEW d \in casts'[m].audience \ casts'[m].to
                 PROVE  m \in Range(heard'[d]) \/ d \in casts'[m].dead \/ d \notin connections'
      OBVIOUS
    <3>1. d \in Client /\ d \in casts[m].audience
      BY <1>3, <1>4
    <3>2. CASE d \in casts[m].to
      <4>1. m = k /\ d = c
        BY <1>4, <3>2
      <4> QED  BY <1>1, <1>3, <1>5, <4>1
    <3>3. CASE d \notin casts[m].to
      <4>1. m \in Range(heard[d]) \/ d \in casts[m].dead \/ d \notin connections
        BY <3>1, <3>3 DEF DashInv, Delivered
      <4> QED  BY <1>1, <1>5, <3>1, <4>1
    <3> QED  BY <3>2, <3>3
  <2>3. \A j, m \in DOMAIN casts : \A d \in casts'[j].audience :
          j < m /\ socket[d] = "open" => d \in casts'[m].audience
    BY <1>4 DEF DashInv, Delivered
  <2> QED  BY <1>1, <1>2, <1>5, <2>1, <2>2, <2>3 DEF Delivered
<1>9. InStep'
  <2> SUFFICES ASSUME NEW j \in DOMAIN casts, NEW m \in DOMAIN casts,
                      NEW d \in casts'[j].to, j < m, AllAhead(j, d)'
               PROVE  d \in casts'[m].to
    BY <1>1 DEF InStep
  <2>1. d \in casts[j].to /\ d \in Client /\ AllAhead(j, d)
    BY <1>2, <1>3, <1>4 DEF AllAhead
  <2>2. d \in casts[m].to
    BY <2>1 DEF DashInv, InStep
  <2>3. ASSUME m = k, d = c PROVE FALSE
    <3>1. casts[k].to \cap ahead[c] = {}
      BY <1>2 DEF Turn, Awaits
    <3>2. j \in 1..(k - 1) /\ ~(\E e \in casts[j].audience \cap (ahead[c] \cup {c}) : socket[e] # "open")
      BY <1>3, <2>1, <2>3 DEF AllAhead
    <3>3. ~Awaits(j, c)
      BY <1>2, <3>2 DEF Turn
    <3>4. PICK e \in casts[j].to : e \in ahead[c]
      BY <2>1, <2>3, <3>3 DEF Awaits
    <3>5. ahead[e] \subseteq ahead[c] /\ e \in Client
      BY <1>3, <3>4 DEF DashInv, Linked
    <3>6. AllAhead(j, e)
      BY <2>1, <2>3, <3>4, <3>5 DEF AllAhead
    <3>7. e \in casts[k].to
      BY <2>3, <3>6 DEF DashInv, InStep
    <3> QED  BY <3>1, <3>4, <3>7
  <2> QED  BY <1>4, <2>2, <2>3
<1>10. HeardInOrder'
  <2> SUFFICES ASSUME NEW d \in Client,
                      NEW i \in DOMAIN heard'[d], NEW j \in DOMAIN heard'[d], i < j,
                      heard'[d][i] > heard'[d][j]
               PROVE  \E e \in casts'[heard'[d][j]].audience \cap ahead[d] : socket[e] # "open"
    BY <1>2 DEF HeardInOrder
  <2>1. \A x, y \in DOMAIN heard[d] : x < y /\ heard[d][x] > heard[d][y] =>
          \E e \in casts[heard[d][y]].audience \cap ahead[d] : socket[e] # "open"
    BY DEF DashInv, HeardInOrder
  <2>2. \A x \in DOMAIN heard[d] : /\ heard[d][x] \in DOMAIN casts
                                    /\ d \notin casts[heard[d][x]].to
    BY DEF DashInv, Delivered, Range
  <2>3. CASE heard'[d] = heard[d]
    BY <1>4, <2>1, <2>2, <2>3
  <2>4. CASE heard'[d] # heard[d]
    <3>1. /\ d = c /\ heard'[c] = Append(heard[c], k) /\ heard[c] \in Seq(Nat)
          /\ socket[c] = "open"
      BY <1>1, <1>3, <2>4
    <3>2. /\ DOMAIN heard[c] = 1..Len(heard[c]) /\ Len(heard[c]) \in Nat
          /\ DOMAIN heard'[c] = 1..(Len(heard[c]) + 1)
          /\ heard'[c][Len(heard[c]) + 1] = k
          /\ \A x \in DOMAIN heard[c] : heard'[c][x] = heard[c][x]
      BY <1>3, <3>1
    <3>3. CASE j \in DOMAIN heard[c]
      <4>1. i \in DOMAIN heard[c]
        BY <3>1, <3>2, <3>3
      <4>2. heard'[c][i] = heard[c][i] /\ heard'[c][j] = heard[c][j]
        BY <3>2, <3>3, <4>1
      <4>3. \E e \in casts[heard[c][j]].audience \cap ahead[c] : socket[e] # "open"
        BY <2>1, <3>1, <3>3, <4>1, <4>2
      <4>4. casts'[heard[c][j]].audience = casts[heard[c][j]].audience
        BY <1>4, <2>2, <3>1, <3>3
      <4> QED  BY <3>1, <4>2, <4>3, <4>4
    <3>4. CASE j \notin DOMAIN heard[c]
      <4>1. heard'[c][j] = k /\ i \in DOMAIN heard[c] /\ heard'[c][i] = heard[c][i]
        BY <3>1, <3>2, <3>4
      <4>2. k < heard[c][i] /\ heard[c][i] \in DOMAIN casts /\ c \notin casts[heard[c][i]].to
        BY <1>3, <2>2, <3>1, <4>1
      <4>3. ~AllAhead(k, c)
        BY <4>2 DEF DashInv, InStep
      <4>4. PICK e \in casts[k].audience \cap (ahead[c] \cup {c}) : socket[e] # "open"
        BY <4>3 DEF AllAhead
      <4> QED  BY <1>4, <3>1, <4>1, <4>4
    <3> QED  BY <3>3, <3>4
  <2> QED  BY <2>3, <2>4
<1>11. PredictionsAgree' /\ Announced'
  BY <1>2 DEF DashInv, PredictionsAgree, Announced
<1> QED  BY <1>6, <1>7, <1>8, <1>9, <1>10, <1>11 DEF DashInv

-----------------------------------------------------------------------------
(* Events.                                                                  *)

(* The list of a finite set, in any order.                                  *)
LEMMA Listing ==
  ASSUME NEW T, IsFiniteSet(T), NEW s \in SetToSeqs(T)
  PROVE  /\ s \in Seq(T) /\ DOMAIN s = 1..Len(s) /\ Len(s) \in Nat
         /\ Range(s) = T
         /\ IsInjective(s)
<1> DEFINE N == Cardinality(T)
<1>1. /\ N \in Nat
      /\ s \in [1..N -> T]
      /\ \A i, j \in 1..N : i # j => s[i] # s[j]
  BY FS_CardinalityType DEF SetToSeqs
<1>2. Cardinality(1..N) = N
  BY <1>1, FS_Interval
<1>3. IsInjective(s) /\ s \in Injection(1..N, T)
  BY <1>1 DEF IsInjective, Injection
<1>4. s \in Surjection(1..N, T)
  BY <1>2, <1>3, FS_Injection
<1>5. Range(s) = T
  BY <1>1, <1>4 DEF Surjection, Range
<1>6. s \in Seq(T)
  BY <1>1, SeqDef
<1> QED  BY <1>1, <1>3, <1>5, <1>6

(* Events are added at the end of what was logged.                          *)
LEMMA LogGrows ==
  ASSUME DashTypeOK, NEW events \in Seq(Event), Spawn(events)
  PROVE  /\ log' \in Seq(Event) /\ Len(log') = Len(log) + Len(events)
         /\ \A k \in DOMAIN log : k \in DOMAIN log' /\ log'[k] = log[k]
         /\ \A k \in DOMAIN log' \ DOMAIN log :
              /\ \A j \in DOMAIN log : j < k
              /\ log'[k] \in Range(events)
         /\ \A i \in DOMAIN events : \E k \in DOMAIN log' : log'[k] = events[i]
<1>1. log \in Seq(Event) /\ log' = log \o events
  BY DEF DashTypeOK, Spawn
<1>2. /\ log' \in Seq(Event) /\ Len(log') = Len(log) + Len(events)
      /\ DOMAIN log = 1..Len(log) /\ Len(log) \in Nat
      /\ DOMAIN events = 1..Len(events) /\ Len(events) \in Nat
      /\ DOMAIN log' = 1..(Len(log) + Len(events))
      /\ \A k \in 1..Len(log) : log'[k] = log[k]
      /\ \A k \in (Len(log) + 1)..(Len(log) + Len(events)) : log'[k] = events[k - Len(log)]
  BY <1>1
<1>3. ASSUME NEW k \in DOMAIN log' \ DOMAIN log
      PROVE  (\A j \in DOMAIN log : j < k) /\ log'[k] \in Range(events)
  <2>1. k - Len(log) \in DOMAIN events /\ log'[k] = events[k - Len(log)]
    BY <1>2, <1>3
  <2> QED  BY <1>2, <1>3, <2>1 DEF Range
<1>4. ASSUME NEW i \in DOMAIN events
      PROVE  \E k \in DOMAIN log' : log'[k] = events[i]
  <2>1. Len(log) + i \in DOMAIN log' /\ log'[Len(log) + i] = events[i]
    BY <1>2, <1>4
  <2> QED  BY <2>1
<1> QED  BY <1>2, <1>3, <1>4

(* A record of telemetry says nothing about a prediction.                   *)
LEMMA TelemetryKeeps ==
  ASSUME DashInv, HandleTelemetry
  PROVE  DashInv'
<1> DEFINE events == <<[kind |-> "telemetry"]>>
<1>1. /\ Spawn(events)
      /\ UNCHANGED <<socket, ahead, connections, heard, casts, predictions, tracked, created>>
  BY DEF HandleTelemetry, linkVars, predictionVars
<1>2. events \in Seq(Event) /\ Len(events) = 1 /\ Range(events) = {[kind |-> "telemetry"]}
  BY DEF Event, Range
<1> HIDE DEF events
<1>3. /\ log' \in Seq(Event) /\ Len(log') = Len(log) + 1
      /\ \A k \in DOMAIN log : k \in DOMAIN log' /\ log'[k] = log[k]
      /\ \A k \in DOMAIN log' \ DOMAIN log : log'[k] = [kind |-> "telemetry"]
  BY <1>1, <1>2, LogGrows DEF DashInv
<1>4. \A id : Created(id) # [kind |-> "telemetry"] /\ Resolved(id) # [kind |-> "telemetry"]
  BY DEF Created, Resolved
<1>5. DashTypeOK'
  BY <1>1, <1>3, CastTypes DEF DashInv, DashTypeOK
<1>6. Linked' /\ Delivered' /\ InStep' /\ HeardInOrder' /\ PredictionsAgree'
  BY <1>1 DEF DashInv, Linked, Delivered, InStep, HeardInOrder, AllAhead, PredictionsAgree
<1>7. \A k \in DOMAIN log', id \in Id :
        log'[k] \in {Created(id), Resolved(id)} => k \in DOMAIN log /\ log'[k] = log[k]
  BY <1>3, <1>4
<1>8. Announced'
  <2>1. \A k \in DOMAIN log', id \in Id :
          log'[k] \in {Created(id), Resolved(id)} => id <= created
    BY <1>7 DEF DashInv, Announced
  <2>2. \A j, k \in DOMAIN log', id \in Id :
          log'[j] = Created(id) /\ log'[k] = Resolved(id) => j < k
    BY <1>7 DEF DashInv, Announced
  <2>3. 1..created \subseteq Id
    BY DashboardAssumption DEF DashInv, DashTypeOK, Id
  <2>4. \A id \in 1..created :
          (\E k \in DOMAIN log' : log'[k] = Resolved(id)) <=> id \notin DOMAIN predictions
    BY <1>3, <1>7, <2>3 DEF DashInv, Announced
  <2> QED  BY <1>1, <2>1, <2>2, <2>4 DEF Announced
<1> QED  BY <1>5, <1>6, <1>8 DEF DashInv

(* A round of the generator in terms of sets: which predictions it ends,    *)
(* which it creates, and what it says of either.                            *)
LEMMA RoundDoes ==
  ASSUME DashInv, NEW risky \in SUBSET Neighborhood, Round(risky)
  PROVE  \E n \in Nat, fresh \in Seq(risky \ DOMAIN tracked) :
           LET new == (created + 1)..(created + n)
               ended == Expired(risky) IN
           /\ UNCHANGED <<socket, ahead, connections, heard, casts>>
           /\ created' = created + n /\ created + n <= MaxPredictions
           /\ DOMAIN fresh = 1..n /\ IsInjective(fresh)
           /\ Range(fresh) = risky \ DOMAIN tracked
           /\ predictions' = [id \in (DOMAIN predictions \ ended) \cup new |->
                                IF id > created THEN fresh[id - created] ELSE predictions[id]]
           /\ tracked' = Tracked(risky, fresh)
           /\ log' \in Seq(Event) /\ Len(log') >= Len(log)
           /\ \A k \in DOMAIN log : k \in DOMAIN log' /\ log'[k] = log[k]
           /\ \A k \in DOMAIN log' \ DOMAIN log :
                /\ \A j \in DOMAIN log : j < k
                /\ log'[k] \in {Resolved(id) : id \in ended} \cup {Created(id) : id \in new}
           /\ \A id \in ended : \E k \in DOMAIN log' : log'[k] = Resolved(id)
<1> DEFINE ended == Expired(risky)
<1>1. PICK expired \in SetToSeqs(ended), fresh \in SetToSeqs(risky \ DOMAIN tracked) :
        LET new == (created + 1)..(created + Len(fresh)) IN
        /\ created + Len(fresh) <= MaxPredictions
        /\ created' = created + Len(fresh)
        /\ predictions' = [id \in (DOMAIN predictions \ Range(expired)) \cup new |->
                             IF id > created THEN fresh[id - created] ELSE predictions[id]]
        /\ tracked' = Tracked(risky, fresh)
        /\ Spawn(Resolutions(expired) \o [i \in DOMAIN fresh |-> Created(created + i)])
        /\ UNCHANGED <<linkVars, casts>>
  BY DEF Round
<1>2. /\ created \in Nat /\ created <= MaxPredictions /\ MaxPredictions \in Nat
      /\ DOMAIN predictions \subseteq 1..created
  BY DashboardAssumption DEF DashInv, DashTypeOK
<1>3. IsFiniteSet(ended) /\ ended \subseteq 1..created
  <2>1. ended \subseteq 1..created /\ IsFiniteSet(1..created)
    BY <1>2, FS_Interval DEF Expired
  <2> QED  BY <2>1, FS_Subset
<1>4. IsFiniteSet(risky \ DOMAIN tracked)
  BY DashboardAssumption, FS_Subset
<1>5. /\ expired \in Seq(ended) /\ DOMAIN expired = 1..Len(expired) /\ Len(expired) \in Nat
      /\ Range(expired) = ended
  BY <1>1, <1>3, Listing
<1>6. /\ fresh \in Seq(risky \ DOMAIN tracked) /\ DOMAIN fresh = 1..Len(fresh) /\ Len(fresh) \in Nat
      /\ Range(fresh) = risky \ DOMAIN tracked /\ IsInjective(fresh)
  BY <1>1, <1>4, Listing
<1> HIDE DEF ended
<1> DEFINE n == Len(fresh)
           new == (created + 1)..(created + n)
           over == Resolutions(expired)
           begun == [i \in DOMAIN fresh |-> Created(created + i)]
<1>7. /\ over \in Seq(Event) /\ DOMAIN over = DOMAIN expired
      /\ \A i \in DOMAIN expired : over[i] = Resolved(expired[i])
      /\ Range(over) = {Resolved(id) : id \in ended}
  <2>1. DOMAIN over = 1..Len(expired) /\ \A i \in DOMAIN expired : over[i] = Resolved(expired[i])
    BY <1>5 DEF Resolutions
  <2>2. Range(over) = {Resolved(id) : id \in ended}
    BY <1>5, <2>1 DEF Range
  <2>3. ASSUME NEW i \in 1..Len(expired) PROVE over[i] \in Event
    <3>1. expired[i] \in ended /\ over[i] = Resolved(expired[i])
      BY <1>5, <2>1, <2>3 DEF Range
    <3>2. ended \subseteq Id
      BY <1>2, <1>3 DEF Id
    <3>3. Resolved(expired[i]) \in {Resolved(id) : id \in Id}
      BY <3>1, <3>2
    <3> QED  BY <3>1, <3>3 DEF Event
  <2>4. over = [i \in 1..Len(expired) |-> over[i]]
    BY <1>5 DEF Resolutions
  <2>5. over \in [1..Len(expired) -> Event]
    BY <2>3, <2>4
  <2> QED  BY <1>5, <2>1, <2>2, <2>5, SeqDef
<1>8. begun \in Seq(Event) /\ Range(begun) = {Created(id) : id \in new}
  <2>1. \A i \in 1..n : created + i \in Id /\ created + i \in new
    BY <1>1, <1>2, <1>6 DEF Id
  <2>2. \A id \in new : id - created \in 1..n /\ created + (id - created) = id
    BY <1>2, <1>6
  <2>3. begun \in [1..n -> Event]
    BY <1>6, <2>1 DEF Event
  <2>4. Range(begun) = {Created(id) : id \in new}
    BY <1>6, <2>1, <2>2 DEF Range
  <2> QED  BY <1>6, <2>3, <2>4, SeqDef
<1> HIDE DEF over, begun
<1>9. /\ over \o begun \in Seq(Event)
      /\ Range(over \o begun) \subseteq Range(over) \cup Range(begun)
      /\ \A i \in DOMAIN over : i \in DOMAIN (over \o begun) /\ (over \o begun)[i] = over[i]
  <2>1. /\ over \o begun \in Seq(Event)
        /\ DOMAIN over = 1..Len(over) /\ Len(over) \in Nat
        /\ DOMAIN begun = 1..Len(begun) /\ Len(begun) \in Nat
        /\ DOMAIN (over \o begun) = 1..(Len(over) + Len(begun))
        /\ \A i \in 1..Len(over) : (over \o begun)[i] = over[i]
        /\ \A i \in (Len(over) + 1)..(Len(over) + Len(begun)) :
             (over \o begun)[i] = begun[i - Len(over)]
    BY <1>7, <1>8
  <2>2. ASSUME NEW i \in DOMAIN (over \o begun)
        PROVE  (over \o begun)[i] \in Range(over) \cup Range(begun)
    <3>1. CASE i \in 1..Len(over)
      BY <2>1, <3>1 DEF Range
    <3>2. CASE i \notin 1..Len(over)
      <4>1. i - Len(over) \in DOMAIN begun /\ (over \o begun)[i] = begun[i - Len(over)]
        BY <2>1, <2>2, <3>2
      <4> QED  BY <4>1 DEF Range
    <3> QED  BY <3>1, <3>2
  <2> QED  BY <2>1, <2>2 DEF Range
<1> DEFINE events == over \o begun
<1>10. events \in Seq(Event) /\ Spawn(events) /\ DashTypeOK
  BY <1>1, <1>9 DEF over, begun, DashInv
<1> HIDE DEF events
<1>11. /\ log' \in Seq(Event) /\ Len(log') = Len(log) + Len(events)
       /\ \A k \in DOMAIN log : k \in DOMAIN log' /\ log'[k] = log[k]
       /\ \A k \in DOMAIN log' \ DOMAIN log :
            /\ \A j \in DOMAIN log : j < k
            /\ log'[k] \in Range(events)
       /\ \A i \in DOMAIN events : \E k \in DOMAIN log' : log'[k] = events[i]
  BY <1>10, LogGrows
<1>12. Len(log') >= Len(log)
  BY <1>10, <1>11, CastTypes
<1>13. \A k \in DOMAIN log' \ DOMAIN log :
         /\ \A j \in DOMAIN log : j < k
         /\ log'[k] \in {Resolved(id) : id \in ended} \cup {Created(id) : id \in new}
  BY <1>7, <1>8, <1>9, <1>11 DEF events
<1>14. \A id \in ended : \E k \in DOMAIN log' : log'[k] = Resolved(id)
  <2> SUFFICES ASSUME NEW id \in ended PROVE \E k \in DOMAIN log' : log'[k] = Resolved(id)
    OBVIOUS
  <2>1. PICK i \in DOMAIN expired : expired[i] = id
    BY <1>5 DEF Range
  <2>2. i \in DOMAIN events /\ events[i] = Resolved(id)
    BY <1>7, <1>9, <2>1 DEF events
  <2> QED  BY <1>11, <2>2
<1>15. UNCHANGED <<socket, ahead, connections, heard, casts>>
  BY <1>1 DEF linkVars
<1>16. /\ created' = created + n /\ created + n <= MaxPredictions
       /\ predictions' = [id \in (DOMAIN predictions \ ended) \cup new |->
                            IF id > created THEN fresh[id - created] ELSE predictions[id]]
       /\ tracked' = Tracked(risky, fresh)
  BY <1>1, <1>5
<1> QED  BY <1>6, <1>11, <1>12, <1>13, <1>14, <1>15, <1>16 DEF ended

(* A round ends exactly the predictions whose place it stops tracking, for  *)
(* there is one prediction for a place; those it creates have new numbers.  *)
LEMMA RoundKeeps ==
  ASSUME DashInv, NEW risky \in SUBSET Neighborhood, Round(risky)
  PROVE  DashInv'
<1> DEFINE ended == Expired(risky)
<1>1. PICK n \in Nat, fresh \in Seq(risky \ DOMAIN tracked) :
        LET new == (created + 1)..(created + n) IN
        /\ UNCHANGED <<socket, ahead, connections, heard, casts>>
        /\ created' = created + n /\ created + n <= MaxPredictions
        /\ DOMAIN fresh = 1..n /\ IsInjective(fresh)
        /\ Range(fresh) = risky \ DOMAIN tracked
        /\ predictions' = [id \in (DOMAIN predictions \ ended) \cup new |->
                             IF id > created THEN fresh[id - created] ELSE predictions[id]]
        /\ tracked' = Tracked(risky, fresh)
        /\ log' \in Seq(Event) /\ Len(log') >= Len(log)
        /\ \A k \in DOMAIN log : k \in DOMAIN log' /\ log'[k] = log[k]
        /\ \A k \in DOMAIN log' \ DOMAIN log :
             /\ \A j \in DOMAIN log : j < k
             /\ log'[k] \in {Resolved(id) : id \in ended} \cup {Created(id) : id \in new}
        /\ \A id \in ended : \E k \in DOMAIN log' : log'[k] = Resolved(id)
  BY RoundDoes
<1> DEFINE new == (created + 1)..(created + n)
<1>2. /\ created \in Nat /\ created <= MaxPredictions /\ MaxPredictions \in Nat
      /\ DOMAIN predictions \subseteq 1..created
      /\ predictions \in [DOMAIN predictions -> Neighborhood]
      /\ Range(tracked) = DOMAIN predictions
      /\ \A h \in DOMAIN tracked : predictions[tracked[h]] = h
      /\ \A h \in DOMAIN tracked : tracked[h] \in DOMAIN predictions
  BY DashboardAssumption DEF DashInv, DashTypeOK, PredictionsAgree, Range
<1>3. ended \subseteq DOMAIN predictions /\ ended \subseteq 1..created
  BY <1>2 DEF Expired
<1>4. \A h \in DOMAIN tracked : tracked[h] \in ended <=> h \notin risky
  BY <1>2 DEF Expired
<1> HIDE DEF ended
<1>5. /\ DOMAIN predictions' = (DOMAIN predictions \ ended) \cup new
      /\ \A id \in DOMAIN predictions \ ended : predictions'[id] = predictions[id]
      /\ \A id \in new : predictions'[id] = fresh[id - created]
  BY <1>1, <1>2
<1>6. \A id \in new : id - created \in DOMAIN fresh /\ fresh[id - created] \in risky \ DOMAIN tracked
  BY <1>1, <1>2
<1>7. DashTypeOK'
  <2>1. created' \in 0..MaxPredictions /\ DOMAIN predictions' \subseteq 1..created'
    BY <1>1, <1>2, <1>5
  <2>2. predictions' \in [DOMAIN predictions' -> Neighborhood]
    <3>1. \A id \in DOMAIN predictions' : predictions'[id] \in Neighborhood
      BY <1>2, <1>5, <1>6
    <3> QED  BY <1>1, <3>1
  <2>3. DOMAIN tracked' \subseteq Neighborhood
    BY <1>1 DEF Tracked
  <2>4. Len(casts') <= Len(log')
    BY <1>1, CastTypes DEF DashInv
  <2> QED  BY <1>1, <2>1, <2>2, <2>3, <2>4 DEF DashInv, DashTypeOK
<1>8. Linked' /\ Delivered' /\ InStep' /\ HeardInOrder'
  BY <1>1 DEF DashInv, Linked, Delivered, InStep, HeardInOrder, AllAhead
<1>9. PredictionsAgree'
  <2>1. DOMAIN tracked' = risky
    BY <1>1 DEF Tracked
  <2>2. ASSUME NEW h \in risky \cap DOMAIN tracked
        PROVE  /\ tracked'[h] = tracked[h]
               /\ tracked'[h] \in DOMAIN predictions' /\ predictions'[tracked'[h]] = h
    <3>1. tracked'[h] = tracked[h]
      BY <1>1 DEF Tracked
    <3> QED  BY <1>2, <1>4, <1>5, <3>1
  <2>3. ASSUME NEW h \in risky \ DOMAIN tracked
        PROVE  \E i \in 1..n : fresh[i] = h /\ tracked'[h] = created + i
    <3>1. \E i \in DOMAIN fresh : fresh[i] = h
      BY <1>1 DEF Range
    <3>2. tracked'[h] = created + CHOOSE i \in DOMAIN fresh : fresh[i] = h
      BY <1>1 DEF Tracked
    <3> QED  BY <1>1, <3>1, <3>2
  <2>4. ASSUME NEW h \in risky \ DOMAIN tracked
        PROVE  tracked'[h] \in DOMAIN predictions' /\ predictions'[tracked'[h]] = h
    <3>1. PICK i \in 1..n : fresh[i] = h /\ tracked'[h] = created + i
      BY <2>3
    <3>2. tracked'[h] \in new /\ tracked'[h] - created = i
      BY <1>1, <1>2, <3>1
    <3> QED  BY <1>5, <3>1, <3>2
  <2>5. ASSUME NEW id \in DOMAIN predictions' PROVE \E h \in risky : tracked'[h] = id
    <3>1. CASE id \in new
      <4>1. fresh[id - created] \in risky \ DOMAIN tracked /\ id - created \in 1..n
        BY <1>1, <1>6, <3>1
      <4>2. PICK i \in 1..n : /\ fresh[i] = fresh[id - created]
                              /\ tracked'[fresh[id - created]] = created + i
        BY <2>3, <4>1
      <4>3. i = id - created
        BY <1>1, <4>1, <4>2 DEF IsInjective
      <4>4. created + i = id
        BY <1>1, <1>2, <3>1, <4>3
      <4> QED  BY <4>1, <4>2, <4>4
    <3>2. CASE id \in DOMAIN predictions \ ended
      <4>1. PICK h \in DOMAIN tracked : tracked[h] = id
        BY <1>2, <3>2 DEF Range
      <4>2. h \in risky
        BY <1>4, <3>2, <4>1
      <4> QED  BY <2>2, <4>1, <4>2
    <3> QED  BY <1>5, <3>1, <3>2
  <2>6. \A h \in risky : tracked'[h] \in DOMAIN predictions' /\ predictions'[tracked'[h]] = h
    BY <2>2, <2>4
  <2>7. Range(tracked') = DOMAIN predictions'
    <3>1. Range(tracked') = {tracked'[h] : h \in risky}
      BY <2>1 DEF Range
    <3> QED  BY <2>5, <2>6, <3>1
  <2> QED  BY <2>1, <2>6, <2>7 DEF PredictionsAgree
<1>10. Announced'
  <2>1. \A a, b : /\ Created(a) # Resolved(b)
                  /\ Created(a) = Created(b) => a = b
                  /\ Resolved(a) = Resolved(b) => a = b
    BY DEF Created, Resolved
  <2>2. ASSUME NEW k \in DOMAIN log', NEW id \in Id
        PROVE  /\ log'[k] = Created(id) => id <= created' /\ (k \in DOMAIN log <=> id <= created)
               /\ log'[k] = Resolved(id) => id <= created
    <3>1. id \in Nat
      BY <1>2 DEF Id
    <3>2. CASE k \in DOMAIN log
      BY <1>1, <1>2, <3>1, <3>2 DEF DashInv, Announced
    <3>3. CASE k \notin DOMAIN log
      <4>1. CASE log'[k] \in {Resolved(a) : a \in ended}
        BY <1>2, <1>3, <2>1, <3>1, <3>3, <4>1
      <4>2. CASE log'[k] \in {Created(a) : a \in new}
        BY <1>1, <1>2, <2>1, <3>1, <3>3, <4>2
      <4> QED  BY <1>1, <3>3, <4>1, <4>2
    <3> QED  BY <3>2, <3>3
  <2>3. \A k \in DOMAIN log', id \in Id :
          log'[k] \in {Created(id), Resolved(id)} => id <= created'
    BY <1>1, <1>2, <2>2 DEF Id
  <2>4. ASSUME NEW j \in DOMAIN log', NEW k \in DOMAIN log', NEW id \in Id,
               log'[j] = Created(id), log'[k] = Resolved(id)
        PROVE  j < k
    <3>1. j \in DOMAIN log
      BY <2>2, <2>4
    <3>2. CASE k \in DOMAIN log
      BY <1>1, <2>4, <3>1, <3>2 DEF DashInv, Announced
    <3>3. CASE k \notin DOMAIN log
      BY <1>1, <3>1, <3>3
    <3> QED  BY <3>2, <3>3
  <2>5. ASSUME NEW id \in 1..created'
        PROVE  (\E k \in DOMAIN log' : log'[k] = Resolved(id)) <=> id \notin DOMAIN predictions'
    <3>1. id \in Id /\ id \in Nat
      BY <1>1, <1>2 DEF Id
    <3>2. CASE id > created
      <4>1. id \in DOMAIN predictions'
        BY <1>1, <1>2, <1>5, <3>1, <3>2
      <4>2. \A k \in DOMAIN log' : log'[k] # Resolved(id)
        BY <1>2, <2>2, <3>1, <3>2
      <4> QED  BY <4>1, <4>2
    <3>3. CASE ~(id > created)
      <4>1. id \in 1..created /\ id \notin new
        BY <1>2, <3>1, <3>3
      <4>2. (\E k \in DOMAIN log : log[k] = Resolved(id)) <=> id \notin DOMAIN predictions
        BY <4>1 DEF DashInv, Announced
      <4>3. (\E k \in DOMAIN log' : log'[k] = Resolved(id)) <=>
              id \in ended \/ \E k \in DOMAIN log : log[k] = Resolved(id)
        <5>1. ASSUME NEW k \in DOMAIN log', log'[k] = Resolved(id), k \notin DOMAIN log
              PROVE  id \in ended
          <6>1. log'[k] \in {Resolved(a) : a \in ended} \cup {Created(a) : a \in new}
            BY <1>1, <5>1
          <6> QED  BY <2>1, <5>1, <6>1
        <5>2. \A k \in DOMAIN log : k \in DOMAIN log' /\ log'[k] = log[k]
          BY <1>1
        <5>3. id \in ended => \E k \in DOMAIN log' : log'[k] = Resolved(id)
          BY <1>1
        <5> QED  BY <5>1, <5>2, <5>3
      <4> QED  BY <1>3, <1>5, <4>1, <4>2, <4>3
    <3> QED  BY <3>2, <3>3
  <2> QED  BY <2>3, <2>4, <2>5 DEF Announced
<1> QED  BY <1>7, <1>8, <1>9, <1>10 DEF DashInv

-----------------------------------------------------------------------------
(* Every step of the outlets.                                               *)

OutletsInv == SinkInv /\ DashInv /\ deployment \in Deployment

(* What may surround the orchestrator is made of what the constants give.   *)
LEMMA Surroundings ==
  ASSUME deployment \in Deployment
  PROVE  deployment.clients \subseteq Client /\ deployment.places \subseteq Neighborhood
  BY DeploymentAssumption

(* A step of the outlets is one of the sink or leaves the sink alone.       *)
LEMMA OutletsStepSinks == [OutletsNext]_outletVars => [SinkNext]_sinkVars
  BY DEF OutletsNext, outletVars, HandleTelemetry, Outward, Predict, SinkNext

(* No step of the outlets breaks the invariant of either.                   *)
LEMMA OutletsStepKeeps == OutletsInv /\ [OutletsNext]_outletVars => OutletsInv'
<1> SUFFICES ASSUME OutletsInv, [OutletsNext]_outletVars PROVE OutletsInv'
  OBVIOUS
<1>1. SinkInv'
  BY OutletsStepSinks, SinkStepKeeps DEF OutletsInv
<1>2. deployment' = deployment
  BY DEF OutletsNext, outletVars
<1> SUFFICES DashInv'
  BY <1>1, <1>2 DEF OutletsInv
<1>3. DashInv /\ deployment.clients \subseteq Client /\ deployment.places \subseteq Neighborhood
  BY Surroundings DEF OutletsInv
<1>4. ASSUME UNCHANGED dashVars PROVE DashInv'
  <2>1. UNCHANGED <<socket, ahead, connections, heard, log, casts, predictions, tracked, created>>
    BY <1>4 DEF dashVars, linkVars, predictionVars
  <2>2. DashTypeOK' /\ Linked' /\ Delivered'
    BY <1>3, <2>1 DEF DashInv, DashTypeOK, Linked, Delivered
  <2>3. InStep' /\ HeardInOrder' /\ PredictionsAgree' /\ Announced'
    BY <1>3, <2>1 DEF DashInv, InStep, HeardInOrder, AllAhead, PredictionsAgree, Announced
  <2> QED  BY <2>2, <2>3 DEF DashInv
<1>5. CASE HandleTelemetry
  BY <1>3, <1>5, TelemetryKeeps
<1>6. CASE Outward
  <2>1. CASE CastStep
    BY <1>3, <2>1, StartKeeps, SendKeeps DEF CastStep
  <2>2. CASE \E c \in deployment.clients : LinkStep(c)
    BY <1>3, <2>2, LinkKeeps
  <2> QED  BY <1>6, <2>1, <2>2 DEF Outward
<1>7. CASE Predict
  BY <1>3, <1>7, RoundKeeps DEF Predict
<1> QED  BY <1>4, <1>5, <1>6, <1>7 DEF OutletsNext, outletVars

(* The invariant of the outlets.                                            *)
LEMMA OutletsInvariant == OutletsSpec => []OutletsInv
<1>1. OutletsInit => OutletsInv
  BY SinkStarts, DashStarts DEF OutletsInit, OutletsInv
<1> QED  BY <1>1, OutletsStepKeeps, PTL DEF OutletsSpec

(* The invariant says more than the properties of the dashboards.           *)
LEMMA DashInvImplies == DashInv => DashTypeOK /\ HeardOnce /\ PredictionsAgree /\ PictureIsTrue
                                   /\ HeardInOrder
<1> SUFFICES ASSUME DashInv PROVE HeardOnce /\ PictureIsTrue
  BY DEF DashInv
<1>1. HeardOnce
  <2>1. \A k \in DOMAIN casts : \A c \in casts[k].audience :
          Over(k) /\ c \in connections => k \in Range(heard[c])
    BY DEF DashInv, Delivered, Linked, Over
  <2> QED  BY <2>1 DEF DashInv, Delivered, Linked, HeardOnce
<1>2. PictureIsTrue
  <2>1. ASSUME Len(casts) = Len(log), \A k \in DOMAIN casts : Over(k),
               NEW c \in connections, NEW id \in 1..created,
               socket[c] = "open", Told(c, Created(id))
        PROVE  Told(c, Resolved(id)) <=> id \notin DOMAIN predictions
    <3>1. DOMAIN casts = DOMAIN log /\ c \in Client /\ id \in Id
      BY <2>1, CastTypes, DashboardAssumption DEF DashInv, DashTypeOK, Id
    <3>2. PICK j \in Range(heard[c]) : log[j] = Created(id)
      BY <2>1 DEF Told
    <3>3. j \in DOMAIN casts /\ c \in casts[j].audience
      BY <3>1, <3>2 DEF DashInv, Delivered
    <3>4. ASSUME Told(c, Resolved(id)) PROVE id \notin DOMAIN predictions
      <4>1. PICK k \in Range(heard[c]) : log[k] = Resolved(id)
        BY <3>4 DEF Told
      <4>2. k \in DOMAIN log
        BY <3>1, <4>1 DEF DashInv, Delivered
      <4> QED  BY <2>1, <4>1, <4>2 DEF DashInv, Announced
    <3>5. ASSUME id \notin DOMAIN predictions PROVE Told(c, Resolved(id))
      <4>1. PICK k \in DOMAIN log : log[k] = Resolved(id)
        BY <2>1, <3>5 DEF DashInv, Announced
      <4>2. j < k
        BY <3>1, <3>2, <3>3, <4>1 DEF DashInv, Announced
      <4>3. c \in casts[k].audience \ casts[k].to
        BY <2>1, <3>1, <3>3, <4>1, <4>2 DEF DashInv, Delivered, Over
      <4>4. k \in Range(heard[c])
        BY <2>1, <3>1, <4>1, <4>3 DEF DashInv, Delivered, Linked
      <4> QED  BY <4>1, <4>4 DEF Told
    <3> QED  BY <3>4, <3>5
  <2>2. \A j, k \in DOMAIN log, id \in Id :
          log[j] = Created(id) /\ log[k] = Resolved(id) => j < k
    BY DEF DashInv, Announced
  <2> QED  BY <2>1, <2>2 DEF PictureIsTrue
<1> QED  BY <1>1, <1>2

(* The dashboards' state keeps its type, for any number of clients and of   *)
(* broadcasts: only sockets that were accepted are listed.                  *)
THEOREM DashTypeCorrect == OutletsSpec => []DashTypeOK
  BY OutletsInvariant, DashInvImplies, PTL DEF OutletsInv

(* ConnectionManager.broadcast may be interrupted at every send by clients  *)
(* that come, break and leave, and by other broadcasts, and still reaches   *)
(* each client that stays once, and delists what its endpoint left behind.  *)
THEOREM EachHearsOnce == OutletsSpec => []HeardOnce
  BY OutletsInvariant, DashInvImplies, PTL DEF OutletsInv

(* Broadcasts wait for no other, and still one overtakes an earlier one on  *)
(* its way down the list only past somebody who left.                       *)
THEOREM NewsComesInOrder == OutletsSpec => []HeardInOrder
  BY OutletsInvariant, DashInvImplies, PTL DEF OutletsInv

(* The generator's dictionary of places and the orchestrator's of           *)
(* predictions agree after every round.                                     *)
THEOREM OneForAPlace == OutletsSpec => []PredictionsAgree
  BY OutletsInvariant, DashInvImplies, PTL DEF OutletsInv

(* A dashboard that has heard of a prediction and of everything since shows *)
(* it exactly as long as it is active.                                      *)
THEOREM NewsIsTrue == OutletsSpec => []PictureIsTrue
  BY OutletsInvariant, DashInvImplies, PTL DEF OutletsInv

(* Beside the dashboards the sink is still the sink: they share the records *)
(* it is handed and the end of the event loop, and it never waits for them. *)
THEOREM OutletsRunTheSink == OutletsSpec => SinkSpec
<1>1. OutletsInit => SinkInit
  BY DEF OutletsInit
<1> QED  BY <1>1, OutletsStepSinks, PTL DEF OutletsSpec, SinkSpec

(* So the application keeps every record once, and implements the ledger,   *)
(* whatever its dashboards and predictions do at the same time.             *)
THEOREM OutletsKeepRecords == OutletsSpec => []KeptOnce /\ RefinesLedger
BY OutletsRunTheSink, NothingSlipsAway, SinkKeepsLedger, PTL
=============================================================================
