---------------------------- MODULE ServerProofs ----------------------------
(***************************************************************************)
(* Proofs about the server processes, for any number of them.              *)
(***************************************************************************)
EXTENDS Server, TLAPS

Stages == {"off", "configure", "remove", "listen", "chmod", "accept", "verb"} \cup Ended

LEMMA StepsFollow ==
    ASSUME NEW p \in Procs
    PROVE  /\ Steps(p)[1] = "configure"
           /\ pc[p] = "configure" => Following(p) = IF p \in Servers THEN "remove" ELSE "verb"
           /\ p \in Servers /\ pc[p] = "remove" => Following(p) = "listen"
           /\ p \in Servers /\ pc[p] = "listen" => Following(p) = "chmod"
           /\ p \in Servers /\ pc[p] = "chmod" => Following(p) = "accept"
<1>1. Steps(p)[1] = "configure"
    BY DEF Steps
<1>2. ASSUME p \in Servers, NEW i \in 1..4, pc[p] = Steps(p)[i]
      PROVE  Following(p) = Steps(p)[i + 1]
    <2>1. /\ Steps(p) = <<"configure", "remove", "listen", "chmod", "accept">>
          /\ DOMAIN Steps(p) = 1..5
        BY <1>2 DEF Steps
    <2>2. \A j \in 1..5 : Steps(p)[j] = Steps(p)[i] => j = i
        BY <2>1
    <2>3. (CHOOSE j \in DOMAIN Steps(p) : Steps(p)[j] = pc[p]) = i
        BY <1>2, <2>1, <2>2
    <2> QED BY <2>3 DEF Following
<1>3. ASSUME p \notin Servers, pc[p] = "configure" PROVE Following(p) = "verb"
    <2>1. Steps(p) = <<"configure", "verb">> /\ DOMAIN Steps(p) = 1..2
        BY <1>3 DEF Steps
    <2>2. (CHOOSE j \in DOMAIN Steps(p) : Steps(p)[j] = pc[p]) = 1
        BY <1>3, <2>1
    <2>3. Following(p) = Steps(p)[1 + 1]
        BY <2>2 DEF Following
    <2> QED BY <2>1, <2>3
<1>4. p \in Servers => /\ Steps(p)[1] = "configure" /\ Steps(p)[2] = "remove"
                       /\ Steps(p)[3] = "listen" /\ Steps(p)[4] = "chmod" /\ Steps(p)[5] = "accept"
    BY DEF Steps
<1>5. 1 + 1 = 2 /\ 2 + 1 = 3 /\ 3 + 1 = 4 /\ 4 + 1 = 5 /\ {1, 2, 3, 4} \subseteq 1..4
    OBVIOUS
<1>6. p \in Servers => /\ pc[p] = "configure" => Following(p) = "remove"
                       /\ pc[p] = "remove" => Following(p) = "listen"
                       /\ pc[p] = "listen" => Following(p) = "chmod"
                       /\ pc[p] = "chmod" => Following(p) = "accept"
    BY <1>2, <1>4, <1>5
<1> QED BY <1>1, <1>3, <1>6

-----------------------------------------------------------------------------
(* Type correctness *)

LEMMA ClosedType ==
    ASSUME TypeOK, NEW cs \in SUBSET Conns, Closed(cs)
    PROVE  /\ at' \in [Conns -> {"none", "queued", "accepted", "closed"}]
           /\ peer' \in [Conns -> Servers \cup {None}]
           /\ line' \in [Conns -> Lines \cup {None}]
           /\ \A c \in Conns : at'[c] \in {"queued", "accepted"} => peer'[c] # None
BY DEF TypeOK, Closed

\* What the end of a process keeps in order.
LEMMA DiesType ==
    ASSUME TypeOK, NEW p \in Procs, NEW how \in Ended, Dies(p, how),
           path' \in Servers \cup {None}, private' \in BOOLEAN,
           kills' \in 0..MaxKills, claimed' \in BOOLEAN
    PROVE  TypeOK'
<1>1. Closed({c \in Conns : peer[c] = p})
    BY DEF Dies
<1>2. /\ at' \in [Conns -> {"none", "queued", "accepted", "closed"}]
      /\ peer' \in [Conns -> Servers \cup {None}]
      /\ line' \in [Conns -> Lines \cup {None}]
      /\ \A c \in Conns : at'[c] \in {"queued", "accepted"} => peer'[c] # None
    BY <1>1, ClosedType
<1>3. pc' = [pc EXCEPT ![p] = how] /\ together' \in BOOLEAN
    BY DEF Dies, Goto, TypeOK
<1>4. /\ pc' \in [Procs -> Stages]
      /\ \A q \in Procs : /\ pc'[q] \in {"remove", "listen", "chmod", "accept"} => q \in Servers
                          /\ pc'[q] = "verb" => q \in OneShots
    BY <1>3 DEF TypeOK, Stages, Ended
<1>5. /\ inside' \in [Procs -> SUBSET Verbs] /\ snapshot' \in [Verbs -> SUBSET Verbs]
      /\ disk' \subseteq Verbs /\ truth' \subseteq Verbs
    BY DEF Dies, TypeOK
<1> QED BY <1>2, <1>3, <1>4, <1>5 DEF TypeOK, Stages, Lines, Verbs, Ended

\* A process goes on: its stage is one it may be in.
LEMMA GotoType ==
    ASSUME TypeOK, NEW p \in Procs, NEW step \in Stages, Goto(p, step),
           step \in {"remove", "listen", "chmod", "accept"} => p \in Servers,
           step = "verb" => p \in OneShots
    PROVE  /\ pc' \in [Procs -> Stages] /\ together' \in BOOLEAN
           /\ \A q \in Procs : /\ pc'[q] \in {"remove", "listen", "chmod", "accept"} => q \in Servers
                               /\ pc'[q] = "verb" => q \in OneShots
BY DEF TypeOK, Goto, Stages

LEMMA AppliedType ==
    ASSUME NEW entries \in SUBSET Verbs, NEW v \in Verbs
    PROVE  Applied(entries, v) \subseteq Verbs
BY DEF Applied

LEMMA TypeInductive == TypeOK /\ [Next]_vars => TypeOK'
<1> SUFFICES ASSUME TypeOK, [Next]_vars PROVE TypeOK'
    OBVIOUS
<1> USE ProcessAssumption
<1>0. Stages = {"off", "configure", "remove", "listen", "chmod", "accept", "verb"} \cup Ended
    BY DEF Stages
<1>r. \A p \in Procs : /\ pc[p] \in {"remove", "listen", "chmod", "accept"} => p \in Servers
                       /\ pc[p] = "verb" => p \in OneShots
    BY DEF TypeOK
<1>1. ASSUME NEW p \in Procs, Start(p) PROVE TypeOK'
    <2>1. Goto(p, "configure")
        BY <1>1, StepsFollow DEF Start
    <2>2. "configure" \in Stages
        BY DEF Stages
    <2> QED BY <1>1, <2>1, <2>2, GotoType DEF Start, TypeOK, Stages, sock, conns, store
<1>2. ASSUME NEW p \in Procs, Configure(p) PROVE TypeOK'
    <2>1. Following(p) = IF p \in Servers THEN "remove" ELSE "verb"
        BY <1>2, StepsFollow DEF Configure
    <2>2. Following(p) \in Stages /\ (p \notin Servers => p \in OneShots)
        BY <2>1 DEF Stages, Procs
    <2>3. Following(p) = "verb" => p \in OneShots
        BY <2>1, <2>2
    <2>4. Following(p) \in {"remove", "listen", "chmod", "accept"} => p \in Servers
        BY <2>1
    <2> QED BY <1>2, <2>2, <2>3, <2>4, GotoType DEF Configure, TypeOK, Stages, sock, conns, store
<1>3. ASSUME NEW p \in Procs, Refuse(p) PROVE TypeOK'
    <2>1. Dies(p, "exit2") /\ "exit2" \in Ended
        BY <1>3 DEF Refuse, Ended
    <2> QED BY <1>3, <2>1, DiesType DEF Refuse, TypeOK, sock
<1>4. ASSUME NEW p \in Procs, Remove(p) PROVE TypeOK'
    <2>. pc[p] = "remove"
        BY <1>4 DEF Remove
    <2>0. p \in Servers
        BY <1>r
    <2>1. Following(p) = "listen" /\ "listen" \in Stages
        BY <1>4, <2>0, StepsFollow DEF Remove, Stages
    <2> QED BY <1>4, <2>0, <2>1, GotoType DEF Remove, TypeOK, Stages, conns, store
<1>5. ASSUME NEW p \in Procs, Listen(p) PROVE TypeOK'
    <2>. pc[p] = "listen"
        BY <1>5 DEF Listen
    <2>0. p \in Servers
        BY <1>r
    <2>1. Following(p) = "chmod" /\ "chmod" \in Stages
        BY <1>5, <2>0, StepsFollow DEF Listen, Stages
    <2> QED BY <1>5, <2>0, <2>1, GotoType DEF Listen, TypeOK, Stages, conns, store
<1>6. ASSUME NEW p \in Procs, AddressInUse(p) PROVE TypeOK'
    <2>1. Dies(p, "exit1") /\ "exit1" \in Ended
        BY <1>6 DEF AddressInUse, Ended
    <2> QED BY <1>6, <2>1, DiesType DEF AddressInUse, TypeOK, sock
<1>7. ASSUME NEW p \in Procs, Chmod(p) PROVE TypeOK'
    <2>. pc[p] = "chmod"
        BY <1>7 DEF Chmod
    <2>0. p \in Servers
        BY <1>r
    <2>1. Following(p) = "accept" /\ "accept" \in Stages
        BY <1>7, <2>0, StepsFollow DEF Chmod, Stages
    <2> QED BY <1>7, <2>0, <2>1, GotoType DEF Chmod, TypeOK, Stages, conns, store
<1>8. ASSUME NEW p \in Procs, Kill(p) PROVE TypeOK'
    <2>1. Dies(p, "killed") /\ "killed" \in Ended /\ kills' \in 0..MaxKills
        BY <1>8 DEF Kill, Ended, TypeOK
    <2> QED BY <1>8, <2>1, DiesType DEF Kill, TypeOK, sock
<1>9. ASSUME NEW p \in Procs, OneShot(p) PROVE TypeOK'
    <2>. pc[p] = "verb"
        BY <1>9 DEF OneShot
    <2>0. p \in OneShots
        BY <1>r
    <2> p \in Verbs
        BY <2>0 DEF Verbs
    <2>1. ASSUME Enter(p, p) PROVE TypeOK'
        BY <2>0, <2>1 DEF Enter, TypeOK, sock, conns, history
    <2>2. ASSUME Save(p, p), Goto(p, "exit0"), UNCHANGED conns PROVE TypeOK'
        <3>1. "exit0" \in Stages
            BY DEF Stages, Ended
        <3>2. disk' \subseteq Verbs /\ truth' \subseteq Verbs
            BY <2>0, <2>2, AppliedType DEF Save, TypeOK
        <3> QED BY <2>0, <2>2, <3>1, <3>2, GotoType DEF Save, TypeOK, Stages, sock, conns
    <2> QED BY <1>9, <2>1, <2>2 DEF OneShot
<1>10. ASSUME NEW c \in Conns, Accept(c) PROVE TypeOK'
    BY <1>10 DEF Accept, TypeOK, sock, store, history
<1>11. ASSUME NEW c \in Conns, AcceptFails(c) PROVE TypeOK'
    <2>1. peer[c] \in Procs /\ Dies(peer[c], "exit1") /\ "exit1" \in Ended
        BY <1>11 DEF AcceptFails, Ended, TypeOK, Procs
    <2> QED BY <1>11, <2>1, DiesType DEF AcceptFails, TypeOK
<1>12. ASSUME NEW c \in Conns, HandleMutation(c) PROVE TypeOK'
    <2>0. c \in Verbs /\ peer[c] \in Procs
        BY <1>12 DEF HandleMutation, Busy, TypeOK, Verbs, Procs
    <2>1. ASSUME Enter(peer[c], c) PROVE TypeOK'
        BY <2>0, <2>1 DEF Enter, TypeOK, sock, conns, history
    <2>2. ASSUME Save(peer[c], c), Closed({c}), UNCHANGED <<pc, together>> PROVE TypeOK'
        <3>1. disk' \subseteq Verbs /\ truth' \subseteq Verbs
            BY <2>0, <2>2, AppliedType DEF Save, TypeOK
        <3> QED BY <2>0, <2>2, <3>1, ClosedType DEF Save, TypeOK, sock
    <2> QED BY <1>12, <2>1, <2>2 DEF HandleMutation
<1>13. ASSUME NEW c \in Conns, HandleOther(c) PROVE TypeOK'
    BY <1>13, ClosedType DEF HandleOther, TypeOK, sock, store, history
<1>14. ASSUME NEW c \in Conns, Connect(c) PROVE TypeOK'
    BY <1>14 DEF Connect, TypeOK, sock, store, history
<1>15. ASSUME NEW c \in Conns, Send(c) PROVE TypeOK'
    <2>1. Requests \subseteq Lines
        BY DEF Requests, Lines, TypeOK
    <2> QED BY <1>15, <2>1 DEF Send, TypeOK, sock, store, history
<1>16. ASSUME NEW c \in Conns, HangUp(c) PROVE TypeOK'
    BY <1>16, ClosedType DEF HangUp, TypeOK, sock, store, history
<1>17. ASSUME UNCHANGED vars PROVE TypeOK'
    BY <1>17 DEF vars, TypeOK, sock, conns, store, history
<1> QED BY <1>1, <1>2, <1>3, <1>4, <1>5, <1>6, <1>7, <1>8, <1>9, <1>10, <1>11, <1>12, <1>13,
           <1>14, <1>15, <1>16, <1>17 DEF Next, Run, Serve, Client

LEMMA InitType == Init => TypeOK
<1> SUFFICES ASSUME Init PROVE TypeOK
    OBVIOUS
<1>1. 0 \in 0..MaxKills
    BY ProcessAssumption
<1> QED BY <1>1 DEF Init, TypeOK

(***************************************************************************)
(* Every reachable state is well typed (main.go, ipc.go, store_file.go).   *)
(***************************************************************************)
THEOREM TypeCorrect == Spec => []TypeOK
BY InitType, TypeInductive, PTL DEF Spec
-----------------------------------------------------------------------------
(* The socket's place *)

\* The path names a server that is past Listen, or one is about to bind it.
PlacesInv ==
    /\ path # None /\ pc[path] = "accept" => private
    /\ claimed => \/ path # None /\ pc[path] \in {"chmod", "accept"}
                  \/ path = None /\ \E p \in Servers : pc[p] = "listen"

\* A step of a process that neither holds the path nor is about to bind it.
LEMMA ElsewhereKeepsPlaces ==
    ASSUME TypeOK, PlacesInv, NEW p \in Procs, NEW step \in Stages, Goto(p, step),
           UNCHANGED sock, claimed' => claimed, step # "accept",
           claimed => pc[p] \notin {"listen", "chmod", "accept"} \/ (path # None /\ path # p)
    PROVE  PlacesInv'
<1>1. /\ pc' = [pc EXCEPT ![p] = step] /\ pc \in [Procs -> Stages]
      /\ path' = path /\ private' = private
      /\ path # None => path \in Procs
    BY DEF Goto, sock, TypeOK, Stages, Procs
<1>2. path' # None /\ pc'[path'] = "accept" => private'
    BY <1>1 DEF PlacesInv
<1>3. ASSUME claimed', path # None
      PROVE  path' # None /\ pc'[path'] \in {"chmod", "accept"}
    BY <1>1, <1>3 DEF PlacesInv
<1>4. ASSUME claimed', path = None
      PROVE  path' = None /\ \E q \in Servers : pc'[q] = "listen"
    <2>1. PICK q \in Servers : pc[q] = "listen"
        BY <1>4 DEF PlacesInv
    <2>2. q # p /\ q \in Procs
        BY <1>4, <2>1 DEF Procs
    <2> QED BY <1>1, <1>4, <2>1, <2>2
<1> QED BY <1>2, <1>3, <1>4 DEF PlacesInv

LEMMA PlacesInductive == TypeOK /\ PlacesInv /\ [Next]_vars => PlacesInv'
<1> SUFFICES ASSUME TypeOK, PlacesInv, [Next]_vars PROVE PlacesInv'
    OBVIOUS
<1> USE ProcessAssumption
<1>0. /\ pc \in [Procs -> Stages] /\ Servers \subseteq Procs
      /\ path # None => path \in Servers
    BY DEF TypeOK, Stages, Procs
<1>e. {"exit0", "exit1", "exit2", "killed"} \subseteq Stages
    BY DEF Stages, Ended
<1>1. ASSUME NEW p \in Procs, Start(p) PROVE PlacesInv'
    <2>1. Goto(p, "configure") /\ "configure" \in Stages
        BY <1>1, StepsFollow DEF Start, Stages
    <2> QED BY <1>1, <2>1, ElsewhereKeepsPlaces DEF Start
<1>2. ASSUME NEW p \in Procs, Configure(p) PROVE PlacesInv'
    <2>1. Following(p) \in {"remove", "verb"} /\ Following(p) \in Stages
        BY <1>2, StepsFollow DEF Configure, Stages
    <2> QED BY <1>2, <2>1, ElsewhereKeepsPlaces DEF Configure
<1>3. ASSUME NEW p \in Procs, Refuse(p) PROVE PlacesInv'
    BY <1>3, <1>e, ElsewhereKeepsPlaces DEF Refuse, Dies
<1>4. ASSUME NEW p \in Procs, Remove(p) PROVE PlacesInv'
    <2>1. p \in Servers /\ pc[p] = "remove"
        BY <1>4 DEF Remove, TypeOK
    <2>2. Following(p) = "listen"
        BY <2>1, StepsFollow
    <2>3. pc'[p] = "listen" /\ path' = None
        BY <1>0, <1>4, <2>2 DEF Remove, Goto
    <2> QED BY <2>1, <2>3 DEF PlacesInv
<1>5. ASSUME NEW p \in Procs, Listen(p) PROVE PlacesInv'
    <2>1. p \in Servers /\ pc[p] = "listen"
        BY <1>5 DEF Listen, TypeOK
    <2>2. Following(p) = "chmod"
        BY <2>1, StepsFollow
    <2>3. pc'[p] = "chmod" /\ path' = p /\ p # None
        BY <1>0, <1>5, <2>2 DEF Listen, Goto
    <2> QED BY <2>1, <2>3 DEF PlacesInv
<1>6. ASSUME NEW p \in Procs, AddressInUse(p) PROVE PlacesInv'
    <2>1. pc[p] = "listen" /\ path # None /\ Goto(p, "exit1") /\ UNCHANGED sock
        BY <1>6 DEF AddressInUse, Dies
    <2>2. claimed => path # p
        BY <2>1 DEF PlacesInv
    <2> QED BY <1>6, <1>e, <2>1, <2>2, ElsewhereKeepsPlaces DEF AddressInUse
<1>7. ASSUME NEW p \in Procs, Chmod(p) PROVE PlacesInv'
    <2>1. p \in Servers /\ pc[p] = "chmod"
        BY <1>7 DEF Chmod, TypeOK
    <2>2. Following(p) = "accept"
        BY <2>1, StepsFollow
    <2>3. pc' = [pc EXCEPT ![p] = "accept"] /\ path' = path /\ claimed' = claimed
        BY <1>7, <2>2 DEF Chmod, Goto
    <2>4. path' # None => private'
        BY <1>7, <2>3 DEF Chmod
    <2>5. path # None /\ pc[path] \in {"chmod", "accept"} => pc'[path'] \in {"chmod", "accept"}
        BY <1>0, <2>3
    <2>6. \A q \in Servers : pc[q] = "listen" => pc'[q] = "listen"
        BY <1>0, <2>1, <2>3
    <2> QED BY <2>3, <2>4, <2>5, <2>6 DEF PlacesInv
<1>8. ASSUME NEW p \in Procs, Kill(p) PROVE PlacesInv'
    <2>1. pc' = [pc EXCEPT ![p] = "killed"] /\ path' = path /\ private' = private /\ ~claimed'
        BY <1>8 DEF Kill, Dies, Goto, sock
    <2> QED BY <1>0, <2>1 DEF PlacesInv
<1>9. ASSUME NEW p \in Procs, OneShot(p) PROVE PlacesInv'
    <2>1. ASSUME Enter(p, p) PROVE PlacesInv'
        BY <2>1 DEF Enter, PlacesInv, sock, history
    <2>2. ASSUME Save(p, p), Goto(p, "exit0") PROVE PlacesInv'
        BY <1>9, <1>e, <2>2, ElsewhereKeepsPlaces DEF OneShot, Save
    <2> QED BY <1>9, <2>1, <2>2 DEF OneShot
<1>10. ASSUME NEW c \in Conns, AcceptFails(c) PROVE PlacesInv'
    BY <1>10 DEF AcceptFails, PlacesInv
<1>11. ASSUME UNCHANGED <<pc, sock, claimed>> PROVE PlacesInv'
    BY <1>11 DEF PlacesInv, sock
<1>12. ASSUME NEW c \in Conns,
              Accept(c) \/ HandleMutation(c) \/ HandleOther(c) \/ Client(c)
       PROVE  PlacesInv'
    BY <1>11, <1>12 DEF Accept, HandleMutation, Enter, Save, HandleOther, Client, Connect, Send,
                        HangUp, history, sock
<1>13. ASSUME UNCHANGED vars PROVE PlacesInv'
    BY <1>11, <1>13 DEF vars, history
<1> QED BY <1>1, <1>2, <1>3, <1>4, <1>5, <1>6, <1>7, <1>8, <1>9, <1>10, <1>12, <1>13
        DEF Next, Run, Serve

LEMMA PlacesHold == Spec => [](TypeOK /\ PlacesInv)
<1>1. Init => PlacesInv
    BY DEF Init, PlacesInv
<1> QED BY <1>1, InitType, TypeInductive, PlacesInductive, PTL DEF Spec

(***************************************************************************)
(* However many servers remove, bind and chmod one path, whoever accepts   *)
(* connections through it has a socket of mode 0600 (ipc.go serve).        *)
(***************************************************************************)
THEOREM ServedPathAlwaysPrivate == Spec => []ServedPathIsPrivate
<1>1. PlacesInv => ServedPathIsPrivate
    BY DEF PlacesInv, ServedPathIsPrivate
<1> QED BY <1>1, PlacesHold, PTL

(***************************************************************************)
(* When no start is under way, a path claimed since the last kill or       *)
(* failure names an accepting server (ipc.go:13-19).                       *)
(***************************************************************************)
THEOREM RacesLeaveAServer == Spec => []RacingStartsLeaveAServer
<1>1. TypeOK /\ PlacesInv => RacingStartsLeaveAServer
    BY DEF TypeOK, PlacesInv, RacingStartsLeaveAServer, Settled, Ended
<1> QED BY <1>1, PlacesHold, PTL
-----------------------------------------------------------------------------
(* The store file *)

\* Only a process that may use the store is inside its mutex, one verb at a time; while
\* no two of them have overlapped, what the verb inside has read is what the file holds.
UpdatesInv ==
    /\ \A c \in Conns : at[c] = "accepted" => pc[peer[c]] = "accept"
    /\ \A p \in Procs : inside[p] # {} => UsesStore(p)
    /\ \A p \in Procs : \A v, w \in inside[p] : v = w
    /\ ~together => /\ \A p, q \in Procs : UsesStore(p) /\ UsesStore(q) => p = q
                    /\ disk = truth
                    /\ \A p \in Procs : \A v \in inside[p] : snapshot[v] = disk

\* A process that has no accepted connection goes on.
LEMMA GotoKeepsUpdates ==
    ASSUME TypeOK, UpdatesInv, NEW p \in Procs, NEW step \in Stages, Goto(p, step),
           UNCHANGED <<conns, store>>, pc[p] # "accept",
           inside[p] # {} => step \in {"remove", "listen", "chmod", "accept", "verb"}
    PROVE  UpdatesInv'
<1>1. /\ pc' = [pc EXCEPT ![p] = step] /\ pc \in [Procs -> Stages]
      /\ inside' = inside /\ snapshot' = snapshot /\ disk' = disk /\ truth' = truth
      /\ at' = at /\ peer' = peer
    BY DEF Goto, store, conns, TypeOK, Stages
<1>2. \A c \in Conns : at[c] = "accepted" => peer[c] \in Procs /\ peer[c] # p
    BY ProcessAssumption DEF TypeOK, UpdatesInv, Procs
<1>3. \A c \in Conns : at'[c] = "accepted" => pc'[peer'[c]] = "accept"
    BY <1>1, <1>2 DEF UpdatesInv
<1>4. \A q \in Procs : inside'[q] # {} => UsesStore(q)'
    BY <1>1 DEF UpdatesInv, UsesStore
<1>5. ~together' => /\ ~together
                    /\ \A q, r \in Procs : UsesStore(q)' /\ UsesStore(r)' => q = r
    BY DEF Goto
<1> QED BY <1>1, <1>3, <1>4, <1>5 DEF UpdatesInv

\* A process ends, with its connections and its verbs.
LEMMA DiesKeepsUpdates ==
    ASSUME TypeOK, UpdatesInv, NEW p \in Procs, NEW how \in Ended, Dies(p, how)
    PROVE  UpdatesInv'
<1>1. /\ pc' = [pc EXCEPT ![p] = how] /\ pc \in [Procs -> Stages]
      /\ inside' = [inside EXCEPT ![p] = {}] /\ inside \in [Procs -> SUBSET Verbs]
      /\ disk' = disk /\ truth' = truth
    BY DEF Dies, Goto, TypeOK, Stages
<1>2. \A c \in Conns : at'[c] = "accepted" =>
          at[c] = "accepted" /\ peer'[c] = peer[c] /\ peer[c] \in Procs /\ peer[c] # p
    BY ProcessAssumption DEF Dies, Closed, TypeOK, Procs
<1>3. \A c \in Conns : at'[c] = "accepted" => pc'[peer'[c]] = "accept"
    BY <1>1, <1>2 DEF UpdatesInv
<1>4. \A q \in Procs : inside'[q] # {} => q # p /\ inside'[q] = inside[q] /\ UsesStore(q)
    BY <1>1 DEF UpdatesInv
<1>5. \A q \in Procs : inside'[q] # {} => UsesStore(q)'
    BY <1>1, <1>4 DEF UsesStore
<1>6. \A q \in Procs : \A v, w \in inside'[q] : v = w
    BY <1>4 DEF UpdatesInv
<1>7. ~together' => /\ ~together
                    /\ \A q, r \in Procs : UsesStore(q)' /\ UsesStore(r)' => q = r
    BY DEF Dies, Goto
<1>8. ASSUME ~together', NEW q \in Procs, NEW v \in inside'[q]
      PROVE  snapshot'[v] = disk'
    <2>1. q # p /\ v \in inside[q] /\ UsesStore(q) /\ v \in Verbs
        BY <1>1, <1>4, <1>8
    <2>2. inside[p] = {}
        BY <1>7, <1>8, <2>1 DEF UpdatesInv
    <2>3. snapshot'[v] = snapshot[v]
        BY <2>1, <2>2 DEF Dies
    <2> QED BY <1>1, <1>7, <1>8, <2>1, <2>3 DEF UpdatesInv
<1> QED BY <1>1, <1>3, <1>5, <1>6, <1>7, <1>8 DEF UpdatesInv

LEMMA EnterKeepsUpdates ==
    ASSUME TypeOK, UpdatesInv, NEW p \in Procs, NEW v \in Verbs, Enter(p, v), UsesStore(p)
    PROVE  UpdatesInv'
<1>1. /\ inside' = [inside EXCEPT ![p] = {v}] /\ inside \in [Procs -> SUBSET Verbs]
      /\ snapshot' = [snapshot EXCEPT ![v] = disk] /\ snapshot \in [Verbs -> SUBSET Verbs]
      /\ disk' = disk /\ truth' = truth /\ pc' = pc /\ at' = at /\ peer' = peer
      /\ together' = together
    BY DEF Enter, TypeOK, conns, history
<1>2. \A q \in Procs : UsesStore(q)' <=> UsesStore(q)
    BY <1>1 DEF UsesStore
<1>3. ASSUME ~together', NEW q \in Procs, NEW w \in inside'[q]
      PROVE  snapshot'[w] = disk'
    <2>1. CASE q = p
        BY <1>1, <2>1, <1>3
    <2>2. CASE q # p
        BY <1>1, <2>2, <1>3 DEF UpdatesInv
    <2> QED BY <2>1, <2>2
<1>4. \A q \in Procs : inside'[q] # {} => UsesStore(q)'
    BY <1>1, <1>2 DEF UpdatesInv
<1>5. \A q \in Procs : \A w, x \in inside'[q] : w = x
    BY <1>1 DEF UpdatesInv
<1> QED BY <1>1, <1>2, <1>3, <1>4, <1>5 DEF UpdatesInv

\* What a save leaves behind, before its connection closes or its process ends.
LEMMA SaveKeepsUpdates ==
    ASSUME TypeOK, UpdatesInv, NEW p \in Procs, NEW v \in Verbs, Save(p, v), UsesStore(p)
    PROVE  /\ \A q \in Procs : inside'[q] # {} => q # p /\ UsesStore(q)
           /\ \A q \in Procs : \A w, x \in inside'[q] : w = x
           /\ ~together => /\ disk' = truth'
                           /\ \A q \in Procs : inside'[q] = {}
<1>1. /\ inside' = [inside EXCEPT ![p] = @ \ {v}] /\ inside \in [Procs -> SUBSET Verbs]
      /\ disk' = Applied(snapshot[v], v) /\ truth' = Applied(truth, v) /\ v \in inside[p]
    BY DEF Save, TypeOK
<1>2. inside'[p] = {}
    BY <1>1 DEF UpdatesInv
<1>3. \A q \in Procs : inside'[q] # {} => q # p /\ inside'[q] = inside[q] /\ UsesStore(q)
    BY <1>1, <1>2 DEF UpdatesInv
<1>4. ~together => snapshot[v] = truth /\ \A q \in Procs : UsesStore(q) => q = p
    BY <1>1 DEF UpdatesInv
<1>5. \A q \in Procs : \A w, x \in inside'[q] : w = x
    BY <1>3 DEF UpdatesInv
<1>6. ~together => disk' = truth'
    BY <1>1, <1>4
<1>7. ~together => \A q \in Procs : inside'[q] = {}
    BY <1>3, <1>4
<1> QED BY <1>3, <1>5, <1>6, <1>7

\* A connection that is not inside closes, or one is accepted by a serving process.
LEMMA ConnectionsKeepUpdates ==
    ASSUME UpdatesInv, UNCHANGED <<pc, store, history>>,
           \A c \in Conns : at'[c] = "accepted" => pc[peer'[c]] = "accept"
    PROVE  UpdatesInv'
<1>1. /\ pc' = pc /\ inside' = inside /\ snapshot' = snapshot /\ disk' = disk
      /\ truth' = truth /\ together' = together
    BY DEF store, history
<1>2. \A q \in Procs : UsesStore(q)' <=> UsesStore(q)
    BY <1>1 DEF UsesStore
<1> QED BY <1>1, <1>2 DEF UpdatesInv

LEMMA UpdatesInductive == TypeOK /\ UpdatesInv /\ [Next]_vars => UpdatesInv'
<1> SUFFICES ASSUME TypeOK, UpdatesInv, [Next]_vars PROVE UpdatesInv'
    OBVIOUS
<1> USE ProcessAssumption
<1>e. \A p \in Procs : inside[p] # {} => UsesStore(p)
    BY DEF UpdatesInv
<1>1. ASSUME NEW p \in Procs, Start(p) PROVE UpdatesInv'
    <2>1. Goto(p, "configure") /\ "configure" \in Stages
        BY <1>1, StepsFollow DEF Start, Stages
    <2> QED BY <1>1, <1>e, <2>1, GotoKeepsUpdates DEF Start, UsesStore
<1>2. ASSUME NEW p \in Procs, Configure(p) PROVE UpdatesInv'
    <2>1. Following(p) \in {"remove", "verb"} /\ Following(p) \in Stages
        BY <1>2, StepsFollow DEF Configure, Stages
    <2> QED BY <1>2, <2>1, GotoKeepsUpdates DEF Configure
<1>3. ASSUME NEW p \in Procs, Remove(p) \/ Listen(p) \/ Chmod(p) PROVE UpdatesInv'
    <2>1. p \in Servers /\ pc[p] \in {"remove", "listen", "chmod"}
        BY <1>3 DEF Remove, Listen, Chmod, TypeOK
    <2>2. Following(p) \in {"listen", "chmod", "accept"} /\ Following(p) \in Stages
        BY <2>1, StepsFollow DEF Stages
    <2>3. Goto(p, Following(p)) /\ UNCHANGED <<conns, store>>
        BY <1>3 DEF Remove, Listen, Chmod
    <2> QED BY <2>1, <2>2, <2>3, GotoKeepsUpdates
<1>4. ASSUME NEW p \in Procs, Refuse(p) \/ AddressInUse(p) \/ Kill(p) PROVE UpdatesInv'
    <2>1. PICK how \in Ended : Dies(p, how)
        BY <1>4 DEF Refuse, AddressInUse, Kill, Ended
    <2> QED BY <2>1, DiesKeepsUpdates
<1>5. ASSUME NEW p \in Procs, OneShot(p) PROVE UpdatesInv'
    <2>0. p \in Verbs /\ pc[p] = "verb" /\ UsesStore(p)
        BY <1>5 DEF OneShot, TypeOK, Verbs, UsesStore
    <2>1. ASSUME Enter(p, p) PROVE UpdatesInv'
        BY <2>0, <2>1, EnterKeepsUpdates
    <2>2. ASSUME Save(p, p), Goto(p, "exit0"), UNCHANGED conns PROVE UpdatesInv'
        <3>1. pc' = [pc EXCEPT ![p] = "exit0"] /\ pc \in [Procs -> Stages]
            BY <2>2 DEF Goto, TypeOK, Stages
        <3>2. /\ \A q \in Procs : inside'[q] # {} => q # p /\ UsesStore(q)
              /\ \A q \in Procs : \A w, x \in inside'[q] : w = x
              /\ ~together => disk' = truth' /\ \A q \in Procs : inside'[q] = {}
            BY <2>0, <2>2, SaveKeepsUpdates
        <3>3. \A q \in Procs : inside'[q] # {} => UsesStore(q)'
            BY <3>1, <3>2 DEF UsesStore
        <3>4. \A c \in Conns : at[c] = "accepted" => peer[c] \in Procs /\ peer[c] # p
            BY <2>0 DEF TypeOK, UpdatesInv, Procs
        <3>5. \A c \in Conns : at'[c] = "accepted" => pc'[peer'[c]] = "accept"
            BY <2>2, <3>1, <3>4 DEF conns, UpdatesInv
        <3>6. ~together' => /\ ~together
                            /\ \A q, r \in Procs : UsesStore(q)' /\ UsesStore(r)' => q = r
            BY <2>2 DEF Goto
        <3> QED BY <3>2, <3>3, <3>5, <3>6 DEF UpdatesInv
    <2> QED BY <1>5, <2>1, <2>2 DEF OneShot
<1>6. ASSUME NEW c \in Conns, AcceptFails(c) PROVE UpdatesInv'
    <2>1. peer[c] \in Procs /\ Dies(peer[c], "exit1") /\ "exit1" \in Ended
        BY <1>6 DEF AcceptFails, Ended, TypeOK, Procs
    <2> QED BY <2>1, DiesKeepsUpdates
<1>7. ASSUME NEW c \in Conns, Accept(c) PROVE UpdatesInv'
    <2>1. /\ at' = [at EXCEPT ![c] = "accepted"] /\ peer' = peer /\ pc[peer[c]] = "accept"
          /\ at \in [Conns -> {"none", "queued", "accepted", "closed"}]
        BY <1>7 DEF Accept, TypeOK
    <2>2. \A d \in Conns : at'[d] = "accepted" => pc[peer'[d]] = "accept"
        BY <2>1 DEF UpdatesInv
    <2> QED BY <1>7, <2>2, ConnectionsKeepUpdates DEF Accept
<1>8. ASSUME NEW c \in Conns, HandleMutation(c) PROVE UpdatesInv'
    <2>0. c \in Verbs /\ peer[c] \in Procs /\ UsesStore(peer[c])
        BY <1>8 DEF HandleMutation, Busy, TypeOK, Verbs, Procs, UpdatesInv, UsesStore
    <2>1. ASSUME Enter(peer[c], c) PROVE UpdatesInv'
        BY <2>0, <2>1, EnterKeepsUpdates
    <2>2. ASSUME Save(peer[c], c), Closed({c}), UNCHANGED <<pc, together>> PROVE UpdatesInv'
        <3>2. /\ \A q \in Procs : inside'[q] # {} => q # peer[c] /\ UsesStore(q)
              /\ \A q \in Procs : \A w, x \in inside'[q] : w = x
              /\ ~together => disk' = truth' /\ \A q \in Procs : inside'[q] = {}
            BY <2>0, <2>2, SaveKeepsUpdates
        <3>3. \A q \in Procs : UsesStore(q)' <=> UsesStore(q)
            BY <2>2 DEF UsesStore
        <3>4. \A d \in Conns : at'[d] = "accepted" => pc'[peer'[d]] = "accept"
            BY <2>2 DEF Closed, UpdatesInv
        <3> QED BY <2>2, <3>2, <3>3, <3>4 DEF UpdatesInv
    <2> QED BY <1>8, <2>1, <2>2 DEF HandleMutation
<1>9. ASSUME NEW c \in Conns, HandleOther(c) \/ HangUp(c) PROVE UpdatesInv'
    <2>1. Closed({c}) /\ UNCHANGED <<pc, store, history>>
        BY <1>9 DEF HandleOther, HangUp
    <2>2. \A d \in Conns : at'[d] = "accepted" => pc[peer'[d]] = "accept"
        BY <2>1 DEF Closed, UpdatesInv
    <2> QED BY <2>1, <2>2, ConnectionsKeepUpdates
<1>10. ASSUME NEW c \in Conns, Connect(c) PROVE UpdatesInv'
    <2>1. \A d \in Conns : at'[d] = "accepted" => at[d] = "accepted" /\ peer'[d] = peer[d]
        BY <1>10 DEF Connect, TypeOK
    <2>2. \A d \in Conns : at'[d] = "accepted" => pc[peer'[d]] = "accept"
        BY <2>1 DEF UpdatesInv
    <2> QED BY <1>10, <2>2, ConnectionsKeepUpdates DEF Connect
<1>11. ASSUME NEW c \in Conns, Send(c) PROVE UpdatesInv'
    BY <1>11, ConnectionsKeepUpdates DEF Send, UpdatesInv
<1>12. ASSUME UNCHANGED vars PROVE UpdatesInv'
    BY <1>12, ConnectionsKeepUpdates DEF vars, conns, UpdatesInv
<1> QED BY <1>1, <1>2, <1>3, <1>4, <1>5, <1>6, <1>7, <1>8, <1>9, <1>10, <1>11, <1>12
        DEF Next, Run, Serve, Client

(***************************************************************************)
(* As long as no two processes use the store at the same time, the file    *)
(* holds what the verbs would leave had each been atomic: nothing is lost  *)
(* and nothing deleted comes back, for any number of connections, starts   *)
(* and kills (guard.go g.mu, store_file.go load and save).                 *)
(***************************************************************************)
THEOREM UpdatesAreKept == Spec => []LostUpdatesNeedTwoProcesses
<1>1. Init => UpdatesInv
    BY DEF Init, UpdatesInv, UsesStore, Verbs
<1>2. UpdatesInv => LostUpdatesNeedTwoProcesses
    BY DEF UpdatesInv, LostUpdatesNeedTwoProcesses
<1> QED BY <1>1, <1>2, InitType, TypeInductive, UpdatesInductive, PTL DEF Spec
=============================================================================
