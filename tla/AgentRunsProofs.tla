-------------------------- MODULE AgentRunsProofs --------------------------
(***************************************************************************)
(* Proofs about AgentRuns, for every set of runs, channels and servers and *)
(* any number of deaths.  The invariant says who may be entering or in a   *)
(* toolset in each state of its link (Links), that an unclosed server has  *)
(* no toolset but the cached one (Current), that everything about a server *)
(* goes back to a row that allows it (Allowed), and what the shutdown has  *)
(* left behind (Closing).                                                  *)
(***************************************************************************)
EXTENDS AgentRuns, TLAPS

Entering == {"lock", "open"}

Stages ==
    /\ \A r \in Runs : asked[r] # None <=> pc[r] \in Entering
    /\ \A r \in Runs : pc[r] \in {"idle", "snapshot", "done"} => held[r] = {}
    /\ \A r \in Runs : pc[r] = "idle" => row[r] = None
    /\ \A r \in Runs : pc[r] = "snapshot" => row[r] # None /\ ValidRow(row[r])

Links ==
    /\ \A r \in Runs : \A t \in held[r] : link[t] \in {"open", "dead"}
    /\ \A r \in Runs : \A t \in held[r] :
          link[t] = "dead" => cause[r] \cap {"lost", "stale"} # {}
    /\ \A r \in Runs : pc[r] = "open" => link[asked[r]] = "opening"
    /\ \A q, r \in Runs : pc[q] = "open" /\ pc[r] = "open" /\ asked[q] = asked[r] => q = r
    /\ \A t \in Toolsets : link[t] \in {"open", "dead"} => \E r \in Runs : t \in held[r]
    /\ \A t \in Toolsets : link[t] = "opening" => \E r \in Runs : asked[r] = t

Used(t) ==
    \/ link[t] # "closed" \/ t \in process
    \/ \E r \in Runs : t \in held[r] \/ asked[r] = t

Current ==
    \A s \in Servers : s \in unclosed \/ closing = <<s, "client">> =>
        /\ \A b \in Runs : Used(<<s, b>>) => toolset[s] = b
        /\ closing = <<s, "client">> => toolset[s] # None

Causes_ == \A r \in Runs : result[r] = "error" => cause[r] # {}

Allowed ==
    /\ \A r \in Runs : \A s \in todo[r] : Allows(row[r], s)
    /\ \A r \in Runs : asked[r] # None => Allows(row[r], asked[r][1])
    /\ \A r \in Runs : \A t \in held[r] : Allows(row[r], t[1])
    /\ \A t \in process : \E r \in Runs : Allows(row[r], t[1])
    /\ \A r \in Runs : pc[r] = "agent" => named[r] = {t[1] : t \in held[r]}

Closing ==
    /\ phase \in {"starting", "serving"} => unclosed = Servers /\ closing = None
    /\ phase = "stopped" => unclosed = {} /\ closing = None
    /\ closing # None => closing[1] \notin unclosed
    /\ phase \in {"closing", "stopped"} =>
          /\ \A r \in Runs : asked[r] # None => asked[r][1] \in touched
          /\ \A r \in Runs : \A t \in held[r] : t[1] \in touched
          /\ \A t \in process :
                \/ t[1] \in unclosed \cup touched \cup hung
                \/ closing = <<t[1], "client">>

IInv == TypeOK /\ Stages /\ Links /\ Current /\ Causes_ /\ Allowed /\ Closing
-----------------------------------------------------------------------------
LEMMA InitHolds == Init => IInv
<1> SUFFICES ASSUME Init PROVE IInv
  OBVIOUS
<1>1. TypeOK
  <2>1. 0 \in 0 .. MaxDeaths
    BY RunsAssumption
  <2>2. link \in [Toolsets -> {"closed", "opening", "open", "dead"}]
    BY DEF Init
  <2>3. process \subseteq Toolsets /\ held \in [Runs -> SUBSET Toolsets]
    BY DEF Init
  <2>6. row \in [Runs -> (UNION {RowsOf[r] : r \in Runs}) \cup {None}]
    BY DEF Init
  <2>9. asked \in [Runs -> Toolsets \cup {None}]
    BY DEF Init
  <2>7. toolset \in [Servers -> Runs \cup {None}]
    BY DEF Init
  <2>8. closing \in Closings \cup {None}
    BY DEF Init
  <2>4. /\ todo \in [Runs -> SUBSET Servers] /\ named \in [Runs -> SUBSET Servers]
        /\ cause \in [Runs -> SUBSET Causes]
        /\ unclosed \subseteq Servers /\ touched \subseteq Servers /\ hung \subseteq Servers
    BY DEF Init
  <2>5. /\ pc \in [Runs -> Places] /\ deaths \in 0 .. MaxDeaths
        /\ result \in [Runs -> {"none", "refused", "ok", "budget", "error"}]
        /\ phase \in {"starting", "serving", "closing", "stopped"}
    BY <2>1 DEF Init, Places
  <2> QED  BY <2>2, <2>3, <2>4, <2>5, <2>6, <2>7, <2>8, <2>9 DEF TypeOK
<1>2. Stages /\ Links
  BY DEF Init, Stages, Links, Entering, Toolsets
<1>3. Current
  <2>1. \A s \in Servers, b \in Runs : ~Used(<<s, b>>)
    BY RunsAssumption DEF Init, Used, Toolsets
  <2>2. \A s \in Servers : closing # <<s, "client">>
    BY RunsAssumption DEF Init, Closings
  <2> QED  BY <2>1, <2>2 DEF Current
<1>5. Causes_ /\ Closing
  BY DEF Init, Causes_, Closing
<1>4. Allowed
  BY DEF Init, Allowed
<1> QED  BY <1>1, <1>2, <1>3, <1>4, <1>5 DEF IInv

LEMMA TypeStep ==
    ASSUME TypeOK, Stages, [Next]_vars PROVE TypeOK'
<1>1. ASSUME NEW r \in Runs, LoadConfig(r) PROVE TypeOK'
  BY <1>1 DEF LoadConfig, TypeOK, Places, runVars, serverVars, closeVars, GoTo
<1>2. ASSUME NEW r \in Runs, SnapshotTaken(r) PROVE TypeOK'
  BY <1>2 DEF SnapshotTaken, TypeOK, Places, runVars, serverVars, closeVars,
     GoTo, Providers
<1>3. ASSUME NEW r \in Runs, SnapshotFails(r) PROVE TypeOK'
  BY <1>3 DEF SnapshotFails, TypeOK, Places, runVars, serverVars, closeVars,
     GoTo, Causes
<1>4. ASSUME NEW r \in Runs, NEW s \in Servers, Ask(r, s) PROVE TypeOK'
  BY <1>4 DEF Ask, First, TypeOK, Places, runVars, serverVars, closeVars,
     GoTo, Toolsets
<1>5. ASSUME NEW r \in Runs, Connect(r) PROVE TypeOK'
  BY <1>5 DEF Connect, TypeOK, Places, runVars, serverVars, closeVars, GoTo
<1>6. ASSUME NEW r \in Runs, Connected(r) PROVE TypeOK'
  <2>1. asked[r] \in Toolsets
    BY <1>6 DEF Connected, Stages, Entering, TypeOK
  <2>2. held' \in [Runs -> SUBSET Toolsets] /\ link' \in [Toolsets -> {"closed", "opening", "open", "dead"}]
    BY <1>6, <2>1 DEF Connected, TypeOK
  <2>3. process' \subseteq Toolsets
    BY <1>6, <2>1 DEF Connected, TypeOK
  <2> QED  BY <1>6, <2>2, <2>3 DEF Connected, TypeOK, Places, closeVars, GoTo
<1>7. ASSUME NEW r \in Runs, ConnectFails(r) PROVE TypeOK'
  <2>1. asked[r] \in Toolsets
    BY <1>7 DEF ConnectFails, Stages, Entering, TypeOK
  <2>2. link' \in [Toolsets -> {"closed", "opening", "open", "dead"}]
    BY <1>7, <2>1 DEF ConnectFails, TypeOK
  <2>3. process' \subseteq Toolsets
    BY <1>7, <2>1 DEF ConnectFails, TypeOK
  <2> QED  BY <1>7, <2>2, <2>3 DEF ConnectFails, TypeOK, Places, closeVars, GoTo
<1>8. ASSUME NEW r \in Runs, Join(r) PROVE TypeOK'
  <2>1. asked[r] \in Toolsets
    BY <1>8 DEF Join, Stages, Entering, TypeOK
  <2>2. held' \in [Runs -> SUBSET Toolsets]
    BY <1>8, <2>1 DEF Join, TypeOK
  <2>3. cause' \in [Runs -> SUBSET Causes]
    BY <1>8 DEF Join, TypeOK, Causes
  <2> QED  BY <1>8, <2>2, <2>3 DEF Join, TypeOK, Places, serverVars, closeVars, GoTo
<1>9. ASSUME NEW r \in Runs, StartAgent(r) PROVE TypeOK'
  BY <1>9 DEF StartAgent, TypeOK, Places, runVars, serverVars, closeVars,
     GoTo, Toolsets
<1>10. ASSUME NEW r \in Runs, AgentEnds(r) PROVE TypeOK'
  BY <1>10 DEF AgentEnds, TypeOK, Places, runVars, serverVars, closeVars, GoTo
<1>11. ASSUME NEW r \in Runs, AgentFails(r) PROVE TypeOK'
  BY <1>11 DEF AgentFails, TypeOK, Places, runVars, serverVars, closeVars,
     GoTo, Causes
<1>12. ASSUME NEW r \in Runs, NEW t \in Toolsets, Leave(r, t) PROVE TypeOK'
  BY <1>12 DEF Leave, LinkAfter, Holders, Last, TypeOK, Places, runVars,
     serverVars, closeVars, GoTo
<1>13. ASSUME NEW r \in Runs, NEW t \in Toolsets, LeaveRaises(r, t) PROVE TypeOK'
  BY <1>13 DEF LeaveRaises, LinkAfter, Holders, Last, TypeOK, Places,
     runVars, serverVars, closeVars, GoTo
<1>14. ASSUME NEW r \in Runs, Return(r) PROVE TypeOK'
  BY <1>14 DEF Return, TypeOK, Places, runVars, serverVars, closeVars, GoTo
<1>15. ASSUME NEW t \in Toolsets, ServerDies(t) PROVE TypeOK'
  <2>1. cause' \in [Runs -> SUBSET Causes] /\ process' \subseteq Toolsets
    BY <1>15 DEF ServerDies, Lose, TypeOK, Causes
  <2>2. link' \in [Toolsets -> {"closed", "opening", "open", "dead"}]
    BY <1>15 DEF ServerDies, Lose, TypeOK
  <2>3. deaths' \in 0 .. MaxDeaths
    BY <1>15, RunsAssumption DEF ServerDies, TypeOK
  <2> QED  BY <1>15, <2>1, <2>2, <2>3 DEF ServerDies, TypeOK, closeVars
<1>16. ASSUME Serve PROVE TypeOK'
  BY <1>16 DEF Serve, TypeOK, Places, runVars, serverVars, closeVars, GoTo
<1>17. ASSUME BeginClose PROVE TypeOK'
  BY <1>17 DEF BeginClose, InUse, TypeOK, Places, runVars, serverVars,
     closeVars, GoTo
<1>18. ASSUME NEW s \in Servers, BeginAclose(s) PROVE TypeOK'
  BY <1>18 DEF BeginAclose, First, TypeOK, Places, runVars, serverVars,
     closeVars, GoTo, Closings
<1>19. ASSUME NEW s \in Servers, ClientCloses(s) PROVE TypeOK'
  BY <1>19 DEF ClientCloses, Lose, TypeOK, Places, runVars, serverVars,
     closeVars, GoTo, Causes, Closings
<1>20. ASSUME NEW s \in Servers, ClientCloseFails(s) PROVE TypeOK'
  BY <1>20 DEF ClientCloseFails, TypeOK, Places, runVars, serverVars,
     closeVars, GoTo
<1>21. ASSUME NEW s \in Servers, AcloseEnds(s) PROVE TypeOK'
  BY <1>21 DEF AcloseEnds, TypeOK, Places, runVars, serverVars, closeVars,
     GoTo
<1>22. ASSUME RestClosed PROVE TypeOK'
  BY <1>22 DEF RestClosed, TypeOK, Places, runVars, serverVars, closeVars,
     GoTo
<1>23. ASSUME UNCHANGED vars PROVE TypeOK'
  BY <1>23 DEF vars, runVars, serverVars, closeVars, TypeOK, Places
<1> QED
  BY <1>1, <1>2, <1>3, <1>4, <1>5, <1>6, <1>7, <1>8, <1>9, <1>10, <1>11, <1>12, <1>13,
     <1>14, <1>15, <1>16, <1>17, <1>18, <1>19, <1>20, <1>21, <1>22, <1>23 DEF Next, Run, Close

LEMMA StagesStep ==
    ASSUME TypeOK, Stages, [Next]_vars PROVE Stages'
<1>1. ASSUME NEW r \in Runs, LoadConfig(r) PROVE Stages'
  <2>1. PICK chosen \in RowsOf[r] :
          /\ row' = [row EXCEPT ![r] = chosen]
          /\ pc'[r] = "snapshot" => ValidRow(chosen)
          /\ \E place \in {"snapshot", "done"} : pc' = [pc EXCEPT ![r] = place]
    BY <1>1 DEF LoadConfig, GoTo, TypeOK
  <2>2. chosen # None
    BY <2>1, RunsAssumption
  <2>3. pc[r] = "idle" /\ UNCHANGED <<asked, held>>
    BY <1>1 DEF LoadConfig
  <2>4. row'[r] = chosen /\ \A q \in Runs : q # r => row'[q] = row[q] /\ pc'[q] = pc[q]
    BY <2>1 DEF TypeOK
  <2>5. pc'[r] \in {"snapshot", "done"}
    BY <2>1 DEF TypeOK
  <2> QED  BY <2>1, <2>2, <2>3, <2>4, <2>5 DEF Stages, Entering
<1>2. ASSUME NEW r \in Runs, SnapshotTaken(r) PROVE Stages'
  BY <1>2 DEF SnapshotTaken, TypeOK, Stages, Entering, runVars, serverVars,
     closeVars, GoTo
<1>3. ASSUME NEW r \in Runs, SnapshotFails(r) PROVE Stages'
  BY <1>3 DEF SnapshotFails, TypeOK, Stages, Entering, runVars, serverVars,
     closeVars, GoTo
<1>4. ASSUME NEW r \in Runs, NEW s \in Servers, Ask(r, s) PROVE Stages'
  <2>1. /\ pc[r] = "connect" /\ pc' = [pc EXCEPT ![r] = "lock"]
        /\ asked' = [asked EXCEPT ![r] = <<s, toolset'[s]>>]
        /\ UNCHANGED <<row, held>>
    BY <1>4 DEF Ask, GoTo
  <2>2. toolset'[s] \in Runs
    BY <1>4 DEF Ask, TypeOK
  <2>3. <<s, toolset'[s]>> # None
    BY <2>2, RunsAssumption DEF Toolsets
  <2> QED  BY <2>1, <2>3 DEF Stages, Entering, TypeOK
<1>5. ASSUME NEW r \in Runs, Connect(r) PROVE Stages'
  BY <1>5 DEF Connect, TypeOK, Stages, Entering, runVars, serverVars,
     closeVars, GoTo
<1>6. ASSUME NEW r \in Runs, Connected(r) PROVE Stages'
  BY <1>6 DEF Connected, TypeOK, Stages, Entering, runVars, serverVars,
     closeVars, GoTo
<1>7. ASSUME NEW r \in Runs, ConnectFails(r) PROVE Stages'
  BY <1>7 DEF ConnectFails, TypeOK, Stages, Entering, runVars, serverVars,
     closeVars, GoTo
<1>8. ASSUME NEW r \in Runs, Join(r) PROVE Stages'
  BY <1>8 DEF Join, TypeOK, Stages, Entering, runVars, serverVars, closeVars,
     GoTo
<1>9. ASSUME NEW r \in Runs, StartAgent(r) PROVE Stages'
  BY <1>9 DEF StartAgent, TypeOK, Stages, Entering, runVars, serverVars,
     closeVars, GoTo
<1>10. ASSUME NEW r \in Runs, AgentEnds(r) PROVE Stages'
  BY <1>10 DEF AgentEnds, TypeOK, Stages, Entering, runVars, serverVars,
     closeVars, GoTo
<1>11. ASSUME NEW r \in Runs, AgentFails(r) PROVE Stages'
  BY <1>11 DEF AgentFails, TypeOK, Stages, Entering, runVars, serverVars,
     closeVars, GoTo
<1>12. ASSUME NEW r \in Runs, NEW t \in Toolsets, Leave(r, t) PROVE Stages'
  BY <1>12 DEF Leave, LinkAfter, Holders, Last, TypeOK, Stages, Entering,
     runVars, serverVars, closeVars, GoTo
<1>13. ASSUME NEW r \in Runs, NEW t \in Toolsets, LeaveRaises(r, t) PROVE Stages'
  BY <1>13 DEF LeaveRaises, LinkAfter, Holders, Last, TypeOK, Stages,
     Entering, runVars, serverVars, closeVars, GoTo
<1>14. ASSUME NEW r \in Runs, Return(r) PROVE Stages'
  BY <1>14 DEF Return, TypeOK, Stages, Entering, runVars, serverVars,
     closeVars, GoTo
<1>15. ASSUME NEW t \in Toolsets, ServerDies(t) PROVE Stages'
  BY <1>15 DEF ServerDies, Lose, TypeOK, Stages, Entering, runVars,
     serverVars, closeVars, GoTo
<1>16. ASSUME Serve PROVE Stages'
  BY <1>16 DEF Serve, TypeOK, Stages, Entering, runVars, serverVars,
     closeVars, GoTo
<1>17. ASSUME BeginClose PROVE Stages'
  BY <1>17 DEF BeginClose, InUse, TypeOK, Stages, Entering, runVars,
     serverVars, closeVars, GoTo
<1>18. ASSUME NEW s \in Servers, BeginAclose(s) PROVE Stages'
  BY <1>18 DEF BeginAclose, First, TypeOK, Stages, Entering, runVars,
     serverVars, closeVars, GoTo
<1>19. ASSUME NEW s \in Servers, ClientCloses(s) PROVE Stages'
  BY <1>19 DEF ClientCloses, Lose, TypeOK, Stages, Entering, runVars,
     serverVars, closeVars, GoTo
<1>20. ASSUME NEW s \in Servers, ClientCloseFails(s) PROVE Stages'
  BY <1>20 DEF ClientCloseFails, TypeOK, Stages, Entering, runVars,
     serverVars, closeVars, GoTo
<1>21. ASSUME NEW s \in Servers, AcloseEnds(s) PROVE Stages'
  BY <1>21 DEF AcloseEnds, TypeOK, Stages, Entering, runVars, serverVars,
     closeVars, GoTo
<1>22. ASSUME RestClosed PROVE Stages'
  BY <1>22 DEF RestClosed, TypeOK, Stages, Entering, runVars, serverVars,
     closeVars, GoTo
<1>23. ASSUME UNCHANGED vars PROVE Stages'
  BY <1>23 DEF vars, runVars, serverVars, closeVars, TypeOK, Stages, Entering
<1> QED
  BY <1>1, <1>2, <1>3, <1>4, <1>5, <1>6, <1>7, <1>8, <1>9, <1>10, <1>11, <1>12, <1>13,
     <1>14, <1>15, <1>16, <1>17, <1>18, <1>19, <1>20, <1>21, <1>22, <1>23 DEF Next, Run, Close

LEMMA LinksStep ==
    ASSUME TypeOK, Stages, Links, [Next]_vars PROVE Links'
<1>1. ASSUME NEW r \in Runs, LoadConfig(r) PROVE Links'
  BY <1>1 DEF LoadConfig, TypeOK, Stages, Links, Entering, runVars,
     serverVars, closeVars, GoTo
<1>2. ASSUME NEW r \in Runs, SnapshotTaken(r) PROVE Links'
  BY <1>2 DEF SnapshotTaken, TypeOK, Stages, Links, Entering, runVars,
     serverVars, closeVars, GoTo
<1>3. ASSUME NEW r \in Runs, SnapshotFails(r) PROVE Links'
  BY <1>3 DEF SnapshotFails, TypeOK, Stages, Links, Entering, runVars,
     serverVars, closeVars, GoTo
<1>4. ASSUME NEW r \in Runs, NEW s \in Servers, Ask(r, s) PROVE Links'
  <2>1. /\ pc[r] = "connect" /\ pc' = [pc EXCEPT ![r] = "lock"]
        /\ asked' = [asked EXCEPT ![r] = <<s, toolset'[s]>>]
        /\ UNCHANGED <<held, cause, link>>
    BY <1>4 DEF Ask, GoTo
  <2>2. asked[r] = None
    BY <2>1 DEF Stages, Entering
  <2>3. \A t \in Toolsets : asked[r] # t
    BY <2>2, RunsAssumption
  <2> QED  BY <2>1, <2>3 DEF Links, TypeOK
<1>5. ASSUME NEW r \in Runs, Connect(r) PROVE Links'
  BY <1>5 DEF Connect, TypeOK, Stages, Links, Entering, runVars, serverVars,
     closeVars, GoTo
<1>6. ASSUME NEW r \in Runs, Connected(r) PROVE Links'
  BY <1>6 DEF Connected, TypeOK, Stages, Links, Entering, runVars,
     serverVars, closeVars, GoTo
<1>7. ASSUME NEW r \in Runs, ConnectFails(r) PROVE Links'
  BY <1>7 DEF ConnectFails, TypeOK, Stages, Links, Entering, runVars,
     serverVars, closeVars, GoTo
<1>8. ASSUME NEW r \in Runs, Join(r) PROVE Links'
  <2>0. asked[r] \in Toolsets
    BY <1>8 DEF Join, Stages, Entering, TypeOK
  <2>1. /\ pc[r] = "lock" /\ pc' = [pc EXCEPT ![r] = "connect"]
        /\ asked' = [asked EXCEPT ![r] = None] /\ UNCHANGED link
        /\ held' = [held EXCEPT ![r] = @ \cup {asked[r]}]
        /\ link[asked[r]] \in {"open", "dead"}
    BY <1>8 DEF Join, GoTo, serverVars
  <2>2. /\ link[asked[r]] = "dead" => "stale" \in cause'[r]
        /\ \A q \in Runs : cause[q] \subseteq cause'[q]
    BY <1>8 DEF Join, TypeOK
  <2>3. \A q \in Runs : \A t \in held'[q] :
          link'[t] = "dead" => cause'[q] \cap {"lost", "stale"} # {}
    BY <2>1, <2>2 DEF Links, TypeOK
  <2>4. \A t \in Toolsets : link'[t] = "opening" => \E q \in Runs : asked'[q] = t
    BY <2>0, <2>1 DEF Links, TypeOK
  <2> QED  BY <2>0, <2>1, <2>3, <2>4 DEF Links, TypeOK
<1>9. ASSUME NEW r \in Runs, StartAgent(r) PROVE Links'
  BY <1>9 DEF StartAgent, TypeOK, Stages, Links, Entering, runVars,
     serverVars, closeVars, GoTo
<1>10. ASSUME NEW r \in Runs, AgentEnds(r) PROVE Links'
  BY <1>10 DEF AgentEnds, TypeOK, Stages, Links, Entering, runVars,
     serverVars, closeVars, GoTo
<1>11. ASSUME NEW r \in Runs, AgentFails(r) PROVE Links'
  BY <1>11 DEF AgentFails, TypeOK, Stages, Links, Entering, runVars,
     serverVars, closeVars, GoTo
<1>12. ASSUME NEW r \in Runs, NEW t \in Toolsets, Leave(r, t) PROVE Links'
  BY <1>12 DEF Leave, LinkAfter, Holders, Last, TypeOK, Stages, Links,
     Entering, runVars, serverVars, closeVars, GoTo
<1>13. ASSUME NEW r \in Runs, NEW t \in Toolsets, LeaveRaises(r, t) PROVE Links'
  BY <1>13 DEF LeaveRaises, LinkAfter, Holders, Last, TypeOK, Stages, Links,
     Entering, runVars, serverVars, closeVars, GoTo
<1>14. ASSUME NEW r \in Runs, Return(r) PROVE Links'
  BY <1>14 DEF Return, TypeOK, Stages, Links, Entering, runVars, serverVars,
     closeVars, GoTo
<1>15. ASSUME NEW t \in Toolsets, ServerDies(t) PROVE Links'
  BY <1>15 DEF ServerDies, Lose, TypeOK, Stages, Links, Entering, runVars,
     serverVars, closeVars, GoTo
<1>16. ASSUME Serve PROVE Links'
  BY <1>16 DEF Serve, TypeOK, Stages, Links, Entering, runVars, serverVars,
     closeVars, GoTo
<1>17. ASSUME BeginClose PROVE Links'
  BY <1>17 DEF BeginClose, InUse, TypeOK, Stages, Links, Entering, runVars,
     serverVars, closeVars, GoTo
<1>18. ASSUME NEW s \in Servers, BeginAclose(s) PROVE Links'
  BY <1>18 DEF BeginAclose, First, TypeOK, Stages, Links, Entering, runVars,
     serverVars, closeVars, GoTo
<1>19. ASSUME NEW s \in Servers, ClientCloses(s) PROVE Links'
  <2> DEFINE u == <<s, toolset[s]>>
  <2>1. Lose(u) /\ UNCHANGED <<pc, asked, held>>
    BY <1>19 DEF ClientCloses
  <2> HIDE DEF u
  <2>2. /\ \A t \in Toolsets : link'[t] = IF t = u /\ link[t] = "open" THEN "dead" ELSE link[t]
        /\ \A q \in Runs : cause[q] \subseteq cause'[q]
        /\ \A q \in Runs : u \in held[q] => "lost" \in cause'[q]
    BY <2>1 DEF Lose, TypeOK
  <2>3. \A q \in Runs : pc[q] = "open" => asked[q] \in Toolsets
    BY DEF Stages, Entering, TypeOK
  <2>4. \A q \in Runs : \A t \in held[q] : t \in Toolsets
    BY DEF TypeOK
  <2>5. \A q \in Runs : \A t \in held'[q] :
          link'[t] = "dead" => cause'[q] \cap {"lost", "stale"} # {}
    BY <2>1, <2>2, <2>4 DEF Links
  <2> QED  BY <2>1, <2>2, <2>3, <2>4, <2>5 DEF Links
<1>20. ASSUME NEW s \in Servers, ClientCloseFails(s) PROVE Links'
  BY <1>20 DEF ClientCloseFails, TypeOK, Stages, Links, Entering, runVars,
     serverVars, closeVars, GoTo
<1>21. ASSUME NEW s \in Servers, AcloseEnds(s) PROVE Links'
  BY <1>21 DEF AcloseEnds, TypeOK, Stages, Links, Entering, runVars,
     serverVars, closeVars, GoTo
<1>22. ASSUME RestClosed PROVE Links'
  BY <1>22 DEF RestClosed, TypeOK, Stages, Links, Entering, runVars,
     serverVars, closeVars, GoTo
<1>23. ASSUME UNCHANGED vars PROVE Links'
  BY <1>23 DEF vars, runVars, serverVars, closeVars, TypeOK, Stages, Links, Entering
<1> QED
  BY <1>1, <1>2, <1>3, <1>4, <1>5, <1>6, <1>7, <1>8, <1>9, <1>10, <1>11, <1>12, <1>13,
     <1>14, <1>15, <1>16, <1>17, <1>18, <1>19, <1>20, <1>21, <1>22, <1>23 DEF Next, Run, Close

LEMMA CurrentKept ==
    ASSUME Current, \A t \in Toolsets : Used(t)' => Used(t),
           toolset' = toolset, unclosed' = unclosed, closing' = closing
    PROVE  Current'
BY DEF Current, Toolsets

LEMMA CurrentStep ==
    ASSUME TypeOK, Stages, Current, Closing, [Next]_vars PROVE Current'
<1>1. ASSUME NEW r \in Runs, LoadConfig(r) PROVE Current'
  BY <1>1 DEF LoadConfig, TypeOK, Stages, Current, Used, Entering, runVars,
     serverVars, closeVars, GoTo
<1>2. ASSUME NEW r \in Runs, SnapshotTaken(r) PROVE Current'
  BY <1>2 DEF SnapshotTaken, TypeOK, Stages, Current, Used, Entering,
     runVars, serverVars, closeVars, GoTo
<1>3. ASSUME NEW r \in Runs, SnapshotFails(r) PROVE Current'
  BY <1>3 DEF SnapshotFails, TypeOK, Stages, Current, Used, Entering,
     runVars, serverVars, closeVars, GoTo
<1>4. ASSUME NEW r \in Runs, NEW s \in Servers, Ask(r, s) PROVE Current'
  <2> DEFINE u == <<s, toolset'[s]>>
  <2>0. toolset'[s] \in Runs /\ u \in Toolsets
    BY <1>4 DEF Ask, TypeOK, Toolsets
  <2>1. \A t \in Toolsets : Used(t)' => Used(t) \/ t = u
    BY <1>4 DEF Ask, Used, TypeOK
  <2>2. ASSUME NEW x \in Servers, x \in unclosed \/ closing = <<x, "client">>
        PROVE  /\ \A b \in Runs : Used(<<x, b>>)' => toolset'[x] = b
               /\ closing = <<x, "client">> => toolset'[x] # None
    <3>1. /\ \A b \in Runs : Used(<<x, b>>) => toolset[x] = b
          /\ closing = <<x, "client">> => toolset[x] # None
      BY <2>2 DEF Current
    <3>2. toolset'[x] = toolset[x] \/ (toolset[x] = None /\ x = s)
      BY <1>4 DEF Ask, TypeOK
    <3>3. \A b \in Runs : b # None
      BY RunsAssumption
    <3>4. ASSUME NEW b \in Runs, Used(<<x, b>>)' PROVE toolset'[x] = b
      <4>1. <<x, b>> \in Toolsets
        BY DEF Toolsets
      <4>2. Used(<<x, b>>) \/ <<x, b>> = u
        BY <2>1, <3>4, <4>1
      <4> QED  BY <3>1, <3>2, <3>3, <4>2
    <3>5. closing = <<x, "client">> => toolset'[x] # None
      BY <3>1, <3>2
    <3> QED  BY <3>4, <3>5
  <2>3. unclosed' = unclosed /\ closing' = closing
    BY <1>4 DEF Ask
  <2> QED  BY <2>2, <2>3 DEF Current
<1>5. ASSUME NEW r \in Runs, Connect(r) PROVE Current'
  BY <1>5 DEF Connect, TypeOK, Stages, Current, Used, Entering, runVars,
     serverVars, closeVars, GoTo
<1>6. ASSUME NEW r \in Runs, Connected(r) PROVE Current'
  <2>1. asked[r] \in Toolsets
    BY <1>6 DEF Connected, Stages, Entering, TypeOK
  <2>2. \A t \in Toolsets : Used(t)' => Used(t)
    <3>1. \A t \in Toolsets : t # asked[r] => link'[t] = link[t]
      BY <1>6, <2>1 DEF Connected, TypeOK
    <3>2. process' \subseteq process \cup {asked[r]}
      BY <1>6 DEF Connected
    <3>3. \A q \in Runs : held'[q] \subseteq held[q] \cup {asked[r]}
      BY <1>6 DEF Connected, TypeOK
    <3>4. \A q \in Runs : asked'[q] \in Toolsets => asked'[q] = asked[q]
      BY <1>6, RunsAssumption DEF Connected, TypeOK
    <3>5. Used(asked[r])
      BY DEF Used
    <3> QED  BY <3>1, <3>2, <3>3, <3>4, <3>5 DEF Used
  <2>3. toolset' = toolset /\ unclosed' = unclosed /\ closing' = closing
    BY <1>6 DEF Connected, serverVars, closeVars
  <2> QED  BY <2>2, <2>3, CurrentKept
<1>7. ASSUME NEW r \in Runs, ConnectFails(r) PROVE Current'
  <2>1. asked[r] \in Toolsets
    BY <1>7 DEF ConnectFails, Stages, Entering, TypeOK
  <2>2. \A t \in Toolsets : Used(t)' => Used(t)
    <3>1. \A t \in Toolsets : t # asked[r] => link'[t] = link[t]
      BY <1>7, <2>1 DEF ConnectFails, TypeOK
    <3>2. process' \subseteq process \cup {asked[r]}
      BY <1>7 DEF ConnectFails
    <3>3. \A q \in Runs : held'[q] \subseteq held[q] \cup {asked[r]}
      BY <1>7 DEF ConnectFails, TypeOK
    <3>4. \A q \in Runs : asked'[q] \in Toolsets => asked'[q] = asked[q]
      BY <1>7, RunsAssumption DEF ConnectFails, TypeOK
    <3>5. Used(asked[r])
      BY DEF Used
    <3> QED  BY <3>1, <3>2, <3>3, <3>4, <3>5 DEF Used
  <2>3. toolset' = toolset /\ unclosed' = unclosed /\ closing' = closing
    BY <1>7 DEF ConnectFails, serverVars, closeVars
  <2> QED  BY <2>2, <2>3, CurrentKept
<1>8. ASSUME NEW r \in Runs, Join(r) PROVE Current'
  <2>1. asked[r] \in Toolsets
    BY <1>8 DEF Join, Stages, Entering, TypeOK
  <2>2. \A t \in Toolsets : Used(t)' => Used(t)
    <3>1. \A t \in Toolsets : t # asked[r] => link'[t] = link[t]
      BY <1>8, <2>1 DEF Join, TypeOK, serverVars
    <3>2. process' \subseteq process \cup {asked[r]}
      BY <1>8 DEF Join, serverVars
    <3>3. \A q \in Runs : held'[q] \subseteq held[q] \cup {asked[r]}
      BY <1>8 DEF Join, TypeOK
    <3>4. \A q \in Runs : asked'[q] \in Toolsets => asked'[q] = asked[q]
      BY <1>8, RunsAssumption DEF Join, TypeOK
    <3>5. Used(asked[r])
      BY DEF Used
    <3> QED  BY <3>1, <3>2, <3>3, <3>4, <3>5 DEF Used
  <2>3. toolset' = toolset /\ unclosed' = unclosed /\ closing' = closing
    BY <1>8 DEF Join, serverVars, closeVars
  <2> QED  BY <2>2, <2>3, CurrentKept
<1>9. ASSUME NEW r \in Runs, StartAgent(r) PROVE Current'
  BY <1>9 DEF StartAgent, TypeOK, Stages, Current, Used, Entering, runVars,
     serverVars, closeVars, GoTo
<1>10. ASSUME NEW r \in Runs, AgentEnds(r) PROVE Current'
  BY <1>10 DEF AgentEnds, TypeOK, Stages, Current, Used, Entering, runVars,
     serverVars, closeVars, GoTo
<1>11. ASSUME NEW r \in Runs, AgentFails(r) PROVE Current'
  BY <1>11 DEF AgentFails, TypeOK, Stages, Current, Used, Entering, runVars,
     serverVars, closeVars, GoTo
<1>12. ASSUME NEW r \in Runs, NEW t \in Toolsets, Leave(r, t) PROVE Current'
  <2>1. \A u \in Toolsets : link'[u] = link[u] \/ link'[u] = "closed"
    BY <1>12 DEF Leave, LinkAfter, TypeOK
  <2>2. \A q \in Runs : held'[q] \subseteq held[q]
    BY <1>12 DEF Leave, TypeOK
  <2>3. UNCHANGED <<asked, process>>
    BY <1>12 DEF Leave
  <2>4. \A u \in Toolsets : Used(u)' => Used(u)
    BY <2>1, <2>2, <2>3 DEF Used
  <2>5. toolset' = toolset /\ unclosed' = unclosed /\ closing' = closing
    BY <1>12 DEF Leave, closeVars
  <2> QED  BY <2>4, <2>5, CurrentKept
<1>13. ASSUME NEW r \in Runs, NEW t \in Toolsets, LeaveRaises(r, t) PROVE Current'
  <2>1. \A u \in Toolsets : link'[u] = link[u] \/ link'[u] = "closed"
    BY <1>13 DEF LeaveRaises, LinkAfter, TypeOK
  <2>2. \A q \in Runs : held'[q] \subseteq held[q]
    BY <1>13 DEF LeaveRaises, TypeOK
  <2>3. UNCHANGED <<asked, process>>
    BY <1>13 DEF LeaveRaises
  <2>4. \A u \in Toolsets : Used(u)' => Used(u)
    BY <2>1, <2>2, <2>3 DEF Used
  <2>5. toolset' = toolset /\ unclosed' = unclosed /\ closing' = closing
    BY <1>13 DEF LeaveRaises, closeVars
  <2> QED  BY <2>4, <2>5, CurrentKept
<1>14. ASSUME NEW r \in Runs, Return(r) PROVE Current'
  BY <1>14 DEF Return, TypeOK, Stages, Current, Used, Entering, runVars,
     serverVars, closeVars, GoTo
<1>15. ASSUME NEW t \in Toolsets, ServerDies(t) PROVE Current'
  BY <1>15 DEF ServerDies, Lose, TypeOK, Stages, Current, Used, Entering,
     runVars, serverVars, closeVars, GoTo
<1>16. ASSUME Serve PROVE Current'
  BY <1>16 DEF Serve, TypeOK, Stages, Current, Used, Entering, runVars,
     serverVars, closeVars, GoTo
<1>17. ASSUME BeginClose PROVE Current'
  BY <1>17 DEF BeginClose, InUse, TypeOK, Stages, Current, Used, Entering,
     runVars, serverVars, closeVars, GoTo
<1>18. ASSUME NEW s \in Servers, BeginAclose(s) PROVE Current'
  BY <1>18 DEF BeginAclose, First, TypeOK, Stages, Current, Used, Entering,
     runVars, serverVars, closeVars, GoTo
<1>19. ASSUME NEW s \in Servers, ClientCloses(s) PROVE Current'
  BY <1>19 DEF ClientCloses, Lose, TypeOK, Stages, Current, Used, Entering,
     runVars, serverVars, closeVars, GoTo
<1>20. ASSUME NEW s \in Servers, ClientCloseFails(s) PROVE Current'
  <2>1. closing = <<s, "client">> /\ closing' = None /\ unclosed' = unclosed
    BY <1>20 DEF ClientCloseFails
  <2>2. s \notin unclosed
    BY <2>1, RunsAssumption DEF Closing, Closings
  <2>3. \A x \in Servers : x # s => toolset'[x] = toolset[x]
    BY <1>20 DEF ClientCloseFails, TypeOK
  <2>4. \A t \in Toolsets : Used(t)' <=> Used(t)
    BY <1>20 DEF ClientCloseFails, Used, runVars
  <2>5. \A x \in Servers : closing' # <<x, "client">>
    BY <2>1, RunsAssumption DEF Closings
  <2> QED  BY <2>1, <2>2, <2>3, <2>4, <2>5 DEF Current, Toolsets
<1>21. ASSUME NEW s \in Servers, AcloseEnds(s) PROVE Current'
  <2>1. closing = <<s, "forget">> /\ closing' = None /\ unclosed' = unclosed
    BY <1>21 DEF AcloseEnds
  <2>2. s \notin unclosed
    BY <2>1, RunsAssumption DEF Closing, Closings
  <2>3. \A x \in Servers : x # s => toolset'[x] = toolset[x]
    BY <1>21 DEF AcloseEnds, TypeOK
  <2>4. \A t \in Toolsets : Used(t)' <=> Used(t)
    BY <1>21 DEF AcloseEnds, Used, runVars
  <2>5. \A x \in Servers : closing' # <<x, "client">>
    BY <2>1, RunsAssumption DEF Closings
  <2> QED  BY <2>1, <2>2, <2>3, <2>4, <2>5 DEF Current, Toolsets
<1>22. ASSUME RestClosed PROVE Current'
  BY <1>22 DEF RestClosed, TypeOK, Stages, Current, Used, Entering, runVars,
     serverVars, closeVars, GoTo
<1>23. ASSUME UNCHANGED vars PROVE Current'
  BY <1>23 DEF vars, runVars, serverVars, closeVars, TypeOK, Stages, Current, Used, Entering
<1> QED
  BY <1>1, <1>2, <1>3, <1>4, <1>5, <1>6, <1>7, <1>8, <1>9, <1>10, <1>11, <1>12, <1>13,
     <1>14, <1>15, <1>16, <1>17, <1>18, <1>19, <1>20, <1>21, <1>22, <1>23 DEF Next, Run, Close

LEMMA CausesStep ==
    ASSUME TypeOK, Links, Causes_, [Next]_vars PROVE Causes_'
<1>1. ASSUME NEW r \in Runs, LoadConfig(r) PROVE Causes_'
  BY <1>1 DEF LoadConfig, TypeOK, Links, Causes_, runVars, serverVars,
     closeVars, GoTo
<1>2. ASSUME NEW r \in Runs, SnapshotTaken(r) PROVE Causes_'
  BY <1>2 DEF SnapshotTaken, TypeOK, Links, Causes_, runVars, serverVars,
     closeVars, GoTo
<1>3. ASSUME NEW r \in Runs, SnapshotFails(r) PROVE Causes_'
  BY <1>3 DEF SnapshotFails, TypeOK, Links, Causes_, runVars, serverVars,
     closeVars, GoTo
<1>4. ASSUME NEW r \in Runs, NEW s \in Servers, Ask(r, s) PROVE Causes_'
  BY <1>4 DEF Ask, First, TypeOK, Links, Causes_, runVars, serverVars,
     closeVars, GoTo
<1>5. ASSUME NEW r \in Runs, Connect(r) PROVE Causes_'
  BY <1>5 DEF Connect, TypeOK, Links, Causes_, runVars, serverVars,
     closeVars, GoTo
<1>6. ASSUME NEW r \in Runs, Connected(r) PROVE Causes_'
  BY <1>6 DEF Connected, TypeOK, Links, Causes_, runVars, serverVars,
     closeVars, GoTo
<1>7. ASSUME NEW r \in Runs, ConnectFails(r) PROVE Causes_'
  BY <1>7 DEF ConnectFails, TypeOK, Links, Causes_, runVars, serverVars,
     closeVars, GoTo
<1>8. ASSUME NEW r \in Runs, Join(r) PROVE Causes_'
  BY <1>8 DEF Join, TypeOK, Links, Causes_, runVars, serverVars, closeVars,
     GoTo
<1>9. ASSUME NEW r \in Runs, StartAgent(r) PROVE Causes_'
  BY <1>9 DEF StartAgent, TypeOK, Links, Causes_, runVars, serverVars,
     closeVars, GoTo
<1>10. ASSUME NEW r \in Runs, AgentEnds(r) PROVE Causes_'
  BY <1>10 DEF AgentEnds, TypeOK, Links, Causes_, runVars, serverVars,
     closeVars, GoTo
<1>11. ASSUME NEW r \in Runs, AgentFails(r) PROVE Causes_'
  <2>1. result' = [result EXCEPT ![r] = "error"]
    BY <1>11 DEF AgentFails
  <2>2. CASE \E t \in held[r] : link[t] = "dead"
    <3>1. cause[r] # {} /\ cause' = cause
      BY <1>11, <2>2 DEF AgentFails, Links
    <3> QED  BY <2>1, <3>1 DEF Causes_, TypeOK
  <2>3. CASE ~\E t \in held[r] : link[t] = "dead"
    <3>1. cause' = [cause EXCEPT ![r] = @ \cup {"own"}]
      BY <1>11, <2>3 DEF AgentFails
    <3> QED  BY <2>1, <3>1 DEF Causes_, TypeOK
  <2> QED  BY <2>2, <2>3
<1>12. ASSUME NEW r \in Runs, NEW t \in Toolsets, Leave(r, t) PROVE Causes_'
  BY <1>12 DEF Leave, LinkAfter, Holders, Last, TypeOK, Links, Causes_,
     runVars, serverVars, closeVars, GoTo
<1>13. ASSUME NEW r \in Runs, NEW t \in Toolsets, LeaveRaises(r, t) PROVE Causes_'
  BY <1>13 DEF LeaveRaises, LinkAfter, Holders, Last, TypeOK, Links, Causes_,
     runVars, serverVars, closeVars, GoTo
<1>14. ASSUME NEW r \in Runs, Return(r) PROVE Causes_'
  BY <1>14 DEF Return, TypeOK, Links, Causes_, runVars, serverVars,
     closeVars, GoTo
<1>15. ASSUME NEW t \in Toolsets, ServerDies(t) PROVE Causes_'
  BY <1>15 DEF ServerDies, Lose, TypeOK, Links, Causes_, runVars, serverVars,
     closeVars, GoTo
<1>16. ASSUME Serve PROVE Causes_'
  BY <1>16 DEF Serve, TypeOK, Links, Causes_, runVars, serverVars, closeVars,
     GoTo
<1>17. ASSUME BeginClose PROVE Causes_'
  BY <1>17 DEF BeginClose, InUse, TypeOK, Links, Causes_, runVars,
     serverVars, closeVars, GoTo
<1>18. ASSUME NEW s \in Servers, BeginAclose(s) PROVE Causes_'
  BY <1>18 DEF BeginAclose, First, TypeOK, Links, Causes_, runVars,
     serverVars, closeVars, GoTo
<1>19. ASSUME NEW s \in Servers, ClientCloses(s) PROVE Causes_'
  BY <1>19 DEF ClientCloses, Lose, TypeOK, Links, Causes_, runVars,
     serverVars, closeVars, GoTo
<1>20. ASSUME NEW s \in Servers, ClientCloseFails(s) PROVE Causes_'
  BY <1>20 DEF ClientCloseFails, TypeOK, Links, Causes_, runVars, serverVars,
     closeVars, GoTo
<1>21. ASSUME NEW s \in Servers, AcloseEnds(s) PROVE Causes_'
  BY <1>21 DEF AcloseEnds, TypeOK, Links, Causes_, runVars, serverVars,
     closeVars, GoTo
<1>22. ASSUME RestClosed PROVE Causes_'
  BY <1>22 DEF RestClosed, TypeOK, Links, Causes_, runVars, serverVars,
     closeVars, GoTo
<1>23. ASSUME UNCHANGED vars PROVE Causes_'
  BY <1>23 DEF vars, runVars, serverVars, closeVars, TypeOK, Links, Causes_
<1> QED
  BY <1>1, <1>2, <1>3, <1>4, <1>5, <1>6, <1>7, <1>8, <1>9, <1>10, <1>11, <1>12, <1>13,
     <1>14, <1>15, <1>16, <1>17, <1>18, <1>19, <1>20, <1>21, <1>22, <1>23 DEF Next, Run, Close

LEMMA AllowedStep ==
    ASSUME TypeOK, Stages, Allowed, [Next]_vars PROVE Allowed'
<1>1. ASSUME NEW r \in Runs, LoadConfig(r) PROVE Allowed'
  <2>1. pc[r] = "idle" /\ row[r] = None
    BY <1>1 DEF LoadConfig, Stages
  <2>2. \A s \in Servers : ~Allows(None, s)
    BY RunsAssumption DEF Allows
  <2>3. \A q \in Runs : q # r => row'[q] = row[q] /\ pc'[q] = pc[q]
    BY <1>1 DEF LoadConfig, GoTo, TypeOK
  <2>4. UNCHANGED <<todo, asked, held, named, process>> /\ pc'[r] # "agent"
    BY <1>1 DEF LoadConfig, GoTo, TypeOK, serverVars
  <2>5. todo[r] = {} /\ held[r] = {} /\ asked[r] = None
    BY <2>1, <2>2 DEF Stages, Entering, Allowed, TypeOK
  <2>6. \A t \in process : t[1] \in Servers
    BY DEF TypeOK, Toolsets
  <2>7. \A t \in process : \E q \in Runs : Allows(row'[q], t[1])
    BY <2>1, <2>2, <2>3, <2>6 DEF Allowed
  <2> QED  BY <2>3, <2>4, <2>5, <2>7 DEF Allowed
<1>2. ASSUME NEW r \in Runs, SnapshotTaken(r) PROVE Allowed'
  <2>1. pc[r] = "snapshot" /\ row[r] # None /\ ValidRow(row[r])
    BY <1>2 DEF SnapshotTaken, Stages
  <2>2. \A s \in Providers(row[r]) : Allows(row[r], s)
    BY <2>1 DEF Providers, Active, Enabled, Allows, ValidRow
  <2>3. /\ todo' = [todo EXCEPT ![r] = Providers(row[r])]
        /\ UNCHANGED <<row, asked, held, named, process>>
        /\ pc' = [pc EXCEPT ![r] = "connect"]
    BY <1>2 DEF SnapshotTaken, serverVars, GoTo
  <2> QED  BY <2>2, <2>3 DEF Allowed, TypeOK
<1>3. ASSUME NEW r \in Runs, SnapshotFails(r) PROVE Allowed'
  BY <1>3 DEF SnapshotFails, TypeOK, Stages, Allowed, Allows, Entering,
     runVars, serverVars, closeVars, GoTo
<1>4. ASSUME NEW r \in Runs, NEW s \in Servers, Ask(r, s) PROVE Allowed'
  BY <1>4 DEF Ask, First, TypeOK, Stages, Allowed, Allows, Entering, runVars,
     serverVars, closeVars, GoTo
<1>5. ASSUME NEW r \in Runs, Connect(r) PROVE Allowed'
  BY <1>5 DEF Connect, TypeOK, Stages, Allowed, Allows, Entering, runVars,
     serverVars, closeVars, GoTo
<1>6. ASSUME NEW r \in Runs, Connected(r) PROVE Allowed'
  BY <1>6 DEF Connected, TypeOK, Stages, Allowed, Allows, Entering, runVars,
     serverVars, closeVars, GoTo
<1>7. ASSUME NEW r \in Runs, ConnectFails(r) PROVE Allowed'
  BY <1>7 DEF ConnectFails, TypeOK, Stages, Allowed, Allows, Entering,
     runVars, serverVars, closeVars, GoTo
<1>8. ASSUME NEW r \in Runs, Join(r) PROVE Allowed'
  BY <1>8 DEF Join, TypeOK, Stages, Allowed, Allows, Entering, runVars,
     serverVars, closeVars, GoTo
<1>9. ASSUME NEW r \in Runs, StartAgent(r) PROVE Allowed'
  BY <1>9 DEF StartAgent, TypeOK, Stages, Allowed, Allows, Entering, runVars,
     serverVars, closeVars, GoTo
<1>10. ASSUME NEW r \in Runs, AgentEnds(r) PROVE Allowed'
  BY <1>10 DEF AgentEnds, TypeOK, Stages, Allowed, Allows, Entering, runVars,
     serverVars, closeVars, GoTo
<1>11. ASSUME NEW r \in Runs, AgentFails(r) PROVE Allowed'
  BY <1>11 DEF AgentFails, TypeOK, Stages, Allowed, Allows, Entering,
     runVars, serverVars, closeVars, GoTo
<1>12. ASSUME NEW r \in Runs, NEW t \in Toolsets, Leave(r, t) PROVE Allowed'
  BY <1>12 DEF Leave, LinkAfter, Holders, Last, TypeOK, Stages, Allowed,
     Allows, Entering, runVars, serverVars, closeVars, GoTo
<1>13. ASSUME NEW r \in Runs, NEW t \in Toolsets, LeaveRaises(r, t) PROVE Allowed'
  BY <1>13 DEF LeaveRaises, LinkAfter, Holders, Last, TypeOK, Stages,
     Allowed, Allows, Entering, runVars, serverVars, closeVars, GoTo
<1>14. ASSUME NEW r \in Runs, Return(r) PROVE Allowed'
  BY <1>14 DEF Return, TypeOK, Stages, Allowed, Allows, Entering, runVars,
     serverVars, closeVars, GoTo
<1>15. ASSUME NEW t \in Toolsets, ServerDies(t) PROVE Allowed'
  BY <1>15 DEF ServerDies, Lose, TypeOK, Stages, Allowed, Allows, Entering,
     runVars, serverVars, closeVars, GoTo
<1>16. ASSUME Serve PROVE Allowed'
  BY <1>16 DEF Serve, TypeOK, Stages, Allowed, Allows, Entering, runVars,
     serverVars, closeVars, GoTo
<1>17. ASSUME BeginClose PROVE Allowed'
  BY <1>17 DEF BeginClose, InUse, TypeOK, Stages, Allowed, Allows, Entering,
     runVars, serverVars, closeVars, GoTo
<1>18. ASSUME NEW s \in Servers, BeginAclose(s) PROVE Allowed'
  BY <1>18 DEF BeginAclose, First, TypeOK, Stages, Allowed, Allows, Entering,
     runVars, serverVars, closeVars, GoTo
<1>19. ASSUME NEW s \in Servers, ClientCloses(s) PROVE Allowed'
  BY <1>19 DEF ClientCloses, Lose, TypeOK, Stages, Allowed, Allows, Entering,
     runVars, serverVars, closeVars, GoTo
<1>20. ASSUME NEW s \in Servers, ClientCloseFails(s) PROVE Allowed'
  BY <1>20 DEF ClientCloseFails, TypeOK, Stages, Allowed, Allows, Entering,
     runVars, serverVars, closeVars, GoTo
<1>21. ASSUME NEW s \in Servers, AcloseEnds(s) PROVE Allowed'
  BY <1>21 DEF AcloseEnds, TypeOK, Stages, Allowed, Allows, Entering,
     runVars, serverVars, closeVars, GoTo
<1>22. ASSUME RestClosed PROVE Allowed'
  BY <1>22 DEF RestClosed, TypeOK, Stages, Allowed, Allows, Entering,
     runVars, serverVars, closeVars, GoTo
<1>23. ASSUME UNCHANGED vars PROVE Allowed'
  BY <1>23 DEF vars, runVars, serverVars, closeVars, TypeOK, Stages, Allowed, Allows, Entering
<1> QED
  BY <1>1, <1>2, <1>3, <1>4, <1>5, <1>6, <1>7, <1>8, <1>9, <1>10, <1>11, <1>12, <1>13,
     <1>14, <1>15, <1>16, <1>17, <1>18, <1>19, <1>20, <1>21, <1>22, <1>23 DEF Next, Run, Close

LEMMA ClosingStep ==
    ASSUME TypeOK, Stages, Current, Closing, [Next]_vars PROVE Closing'
<1>1. ASSUME NEW r \in Runs, LoadConfig(r) PROVE Closing'
  BY <1>1 DEF LoadConfig, TypeOK, Stages, Closing, Entering, runVars,
     serverVars, closeVars, GoTo
<1>2. ASSUME NEW r \in Runs, SnapshotTaken(r) PROVE Closing'
  BY <1>2 DEF SnapshotTaken, TypeOK, Stages, Closing, Entering, runVars,
     serverVars, closeVars, GoTo
<1>3. ASSUME NEW r \in Runs, SnapshotFails(r) PROVE Closing'
  BY <1>3 DEF SnapshotFails, TypeOK, Stages, Closing, Entering, runVars,
     serverVars, closeVars, GoTo
<1>4. ASSUME NEW r \in Runs, NEW s \in Servers, Ask(r, s) PROVE Closing'
  BY <1>4 DEF Ask, First, TypeOK, Stages, Closing, Entering, runVars,
     serverVars, closeVars, GoTo
<1>5. ASSUME NEW r \in Runs, Connect(r) PROVE Closing'
  BY <1>5 DEF Connect, TypeOK, Stages, Closing, Entering, runVars,
     serverVars, closeVars, GoTo
<1>6. ASSUME NEW r \in Runs, Connected(r) PROVE Closing'
  BY <1>6 DEF Connected, TypeOK, Stages, Closing, Entering, runVars,
     serverVars, closeVars, GoTo
<1>7. ASSUME NEW r \in Runs, ConnectFails(r) PROVE Closing'
  BY <1>7 DEF ConnectFails, TypeOK, Stages, Closing, Entering, runVars,
     serverVars, closeVars, GoTo
<1>8. ASSUME NEW r \in Runs, Join(r) PROVE Closing'
  BY <1>8 DEF Join, TypeOK, Stages, Closing, Entering, runVars, serverVars,
     closeVars, GoTo
<1>9. ASSUME NEW r \in Runs, StartAgent(r) PROVE Closing'
  BY <1>9 DEF StartAgent, TypeOK, Stages, Closing, Entering, runVars,
     serverVars, closeVars, GoTo
<1>10. ASSUME NEW r \in Runs, AgentEnds(r) PROVE Closing'
  BY <1>10 DEF AgentEnds, TypeOK, Stages, Closing, Entering, runVars,
     serverVars, closeVars, GoTo
<1>11. ASSUME NEW r \in Runs, AgentFails(r) PROVE Closing'
  BY <1>11 DEF AgentFails, TypeOK, Stages, Closing, Entering, runVars,
     serverVars, closeVars, GoTo
<1>12. ASSUME NEW r \in Runs, NEW t \in Toolsets, Leave(r, t) PROVE Closing'
  BY <1>12 DEF Leave, LinkAfter, Holders, Last, TypeOK, Stages, Closing,
     Entering, runVars, serverVars, closeVars, GoTo
<1>13. ASSUME NEW r \in Runs, NEW t \in Toolsets, LeaveRaises(r, t) PROVE Closing'
  BY <1>13 DEF LeaveRaises, LinkAfter, Holders, Last, TypeOK, Stages,
     Closing, Entering, runVars, serverVars, closeVars, GoTo
<1>14. ASSUME NEW r \in Runs, Return(r) PROVE Closing'
  BY <1>14 DEF Return, TypeOK, Stages, Closing, Entering, runVars,
     serverVars, closeVars, GoTo
<1>15. ASSUME NEW t \in Toolsets, ServerDies(t) PROVE Closing'
  BY <1>15 DEF ServerDies, Lose, TypeOK, Stages, Closing, Entering, runVars,
     serverVars, closeVars, GoTo
<1>16. ASSUME Serve PROVE Closing'
  BY <1>16 DEF Serve, TypeOK, Stages, Closing, Entering, runVars, serverVars,
     closeVars, GoTo
<1>17. ASSUME BeginClose PROVE Closing'
  <2>1. /\ phase' = "closing" /\ touched' = {s \in Servers : InUse(s)}
        /\ unclosed = Servers /\ UNCHANGED <<unclosed, closing, asked, held, process>>
    BY <1>17 DEF BeginClose, Closing, runVars, serverVars
  <2>2. \A r \in Runs : asked[r] # None => asked[r][1] \in touched'
    BY <2>1 DEF InUse, TypeOK, Toolsets
  <2>3. \A r \in Runs : \A t \in held[r] : t[1] \in touched'
    BY <2>1 DEF InUse, TypeOK, Toolsets
  <2>4. \A t \in process : t[1] \in unclosed
    BY <2>1 DEF TypeOK, Toolsets
  <2>5. closing = None
    BY <1>17 DEF BeginClose, Closing
  <2> QED  BY <2>1, <2>2, <2>3, <2>4, <2>5 DEF Closing
<1>18. ASSUME NEW s \in Servers, BeginAclose(s) PROVE Closing'
  <2>1. /\ phase = "closing" /\ closing = None /\ s \in unclosed
        /\ unclosed' = unclosed \ {s}
        /\ closing' = IF toolset[s] = None THEN None ELSE <<s, "client">>
        /\ UNCHANGED <<phase, touched, hung, asked, held, process>>
    BY <1>18 DEF BeginAclose, First, runVars, serverVars
  <2>2. \A t \in process : t[1] = s => closing' = <<s, "client">>
    <3> SUFFICES ASSUME NEW t \in process, t[1] = s PROVE closing' = <<s, "client">>
      OBVIOUS
    <3>1. PICK b \in Runs : t = <<s, b>>
      BY DEF TypeOK, Toolsets
    <3>2. Used(<<s, b>>)
      BY <3>1 DEF Used
    <3>3. toolset[s] = b
      BY <2>1, <3>2 DEF Current
    <3> QED  BY <2>1, <3>3, RunsAssumption
  <2>3. closing' # None => closing'[1] = s
    BY <2>1
  <2>4. \A t \in process : t[1] \in unclosed' \cup touched' \cup hung' \/ closing' = <<t[1], "client">>
    BY <2>1, <2>2, RunsAssumption DEF Closing, Closings, TypeOK, Toolsets
  <2> QED  BY <2>1, <2>3, <2>4 DEF Closing
<1>19. ASSUME NEW s \in Servers, ClientCloses(s) PROVE Closing'
  <2>1. /\ closing = <<s, "client">> /\ closing' = <<s, "forget">>
        /\ process' = process \ {<<s, toolset[s]>>}
        /\ UNCHANGED <<phase, unclosed, touched, hung, asked, held>>
    BY <1>19 DEF ClientCloses, Lose
  <2>2. \A t \in process' : t[1] # s
    <3> SUFFICES ASSUME NEW t \in process', t[1] = s PROVE FALSE
      OBVIOUS
    <3>1. PICK b \in Runs : t = <<s, b>>
      BY <2>1 DEF TypeOK, Toolsets
    <3>2. Used(<<s, b>>)
      BY <2>1, <3>1 DEF Used
    <3>3. toolset[s] = b
      BY <2>1, <3>2 DEF Current
    <3> QED  BY <2>1, <3>1, <3>3
  <2>3. closing # None
    BY <2>1, RunsAssumption DEF Closings
  <2>4. phase = "closing"
    BY <2>3 DEF Closing, TypeOK
  <2>5. s \notin unclosed
    BY <2>1, <2>3 DEF Closing
  <2>6. \A t \in process' : t[1] \in unclosed' \cup touched' \cup hung'
    BY <2>1, <2>2, <2>4 DEF Closing
  <2> QED  BY <2>1, <2>3, <2>4, <2>5, <2>6 DEF Closing
<1>20. ASSUME NEW s \in Servers, ClientCloseFails(s) PROVE Closing'
  BY <1>20 DEF ClientCloseFails, TypeOK, Stages, Closing, Entering, runVars,
     serverVars, closeVars, GoTo
<1>21. ASSUME NEW s \in Servers, AcloseEnds(s) PROVE Closing'
  BY <1>21 DEF AcloseEnds, TypeOK, Stages, Closing, Entering, runVars,
     serverVars, closeVars, GoTo
<1>22. ASSUME RestClosed PROVE Closing'
  BY <1>22 DEF RestClosed, TypeOK, Stages, Closing, Entering, runVars,
     serverVars, closeVars, GoTo
<1>23. ASSUME UNCHANGED vars PROVE Closing'
  BY <1>23 DEF vars, runVars, serverVars, closeVars, TypeOK, Stages, Closing, Entering
<1> QED
  BY <1>1, <1>2, <1>3, <1>4, <1>5, <1>6, <1>7, <1>8, <1>9, <1>10, <1>11, <1>12, <1>13,
     <1>14, <1>15, <1>16, <1>17, <1>18, <1>19, <1>20, <1>21, <1>22, <1>23 DEF Next, Run, Close

-----------------------------------------------------------------------------
(* Theorems                                                                *)

\* The invariant holds in every behaviour.
THEOREM RunsInductive == Spec => []IInv
<1>1. Init => IInv
  BY InitHolds
<1>2. IInv /\ [Next]_vars => IInv'
  <2> SUFFICES ASSUME IInv, [Next]_vars PROVE IInv'
    OBVIOUS
  <2> QED  BY TypeStep, StagesStep, LinksStep, CurrentStep, CausesStep, AllowedStep,
              ClosingStep DEF IInv
<1> QED  BY <1>1, <1>2, PTL DEF Spec

\* Every variable keeps its type.
THEOREM RunsTypeCorrect == Spec => []TypeOK
<1>1. IInv => TypeOK
  BY DEF IInv
<1> QED  BY <1>1, RunsInductive, PTL

\* The runs of a server share one toolset: one connection, one process.
THEOREM OneConnection == Spec => []OneConnectionPerServer
<1>1. IInv => OneConnectionPerServer
  BY DEF IInv, Current, Used, OneConnectionPerServer, TypeOK
<1> QED  BY <1>1, RunsInductive, PTL

\* A connection is not closed under a run that has it.
THEOREM HeldIsConnected == Spec => []ConnectedWhileHeld
<1>1. IInv => ConnectedWhileHeld
  BY DEF IInv, Links, ConnectedWhileHeld
<1> QED  BY <1>1, RunsInductive, PTL

\* An unreachable server costs only its own tools.
THEOREM ErrorsHaveCauses == Spec => []ErrorHasCause
<1>1. IInv => ErrorHasCause
  BY DEF IInv, Causes_, ErrorHasCause
<1> QED  BY <1>1, RunsInductive, PTL

\* What a channel has not enabled is neither connected nor offered.
THEOREM EnabledServersOnly == Spec => []OnlyEnabledServers
<1>1. ASSUME IInv PROVE OnlyEnabledServers
  <2>1. \A t \in Toolsets : link[t] # "closed" \/ t \in process =>
          \E r \in Runs : Allows(row[r], t[1])
    <3> SUFFICES ASSUME NEW t \in Toolsets, link[t] # "closed" \/ t \in process
                 PROVE  \E r \in Runs : Allows(row[r], t[1])
      OBVIOUS
    <3>1. CASE t \in process
      BY <1>1, <3>1 DEF IInv, Allowed
    <3>2. CASE link[t] \in {"open", "dead"}
      BY <1>1, <3>2 DEF IInv, Links, Allowed
    <3>3. CASE link[t] = "opening"
      BY <1>1, <3>3, RunsAssumption DEF IInv, Links, Allowed
    <3> QED  BY <1>1, <3>1, <3>2, <3>3 DEF IInv, TypeOK
  <2>2. ASSUME NEW r \in Runs, pc[r] = "agent"
        PROVE  /\ named[r] = {t[1] : t \in held[r]}
               /\ \A s \in named[r] : Allows(row[r], s)
    BY <1>1, <2>2 DEF IInv, Allowed
  <2> QED  BY <2>1, <2>2 DEF OnlyEnabledServers
<1> QED  BY <1>1, RunsInductive, PTL

\* After the shutdown, what still lives was in use meanwhile or would not close.
THEOREM NothingOutlivesClose == Spec => []ClosedMeansGone
<1>1. ASSUME IInv PROVE ClosedMeansGone
  <2> SUFFICES ASSUME phase = "stopped", NEW t \in process
               PROVE  t[1] \in hung \cup touched
    BY DEF ClosedMeansGone
  <2>1. unclosed = {} /\ closing = None
    BY <1>1 DEF IInv, Closing
  <2>2. closing # <<t[1], "client">>
    BY <1>1, <2>1, RunsAssumption DEF IInv, TypeOK, Toolsets, Closings
  <2>3. t[1] \in unclosed \cup touched \cup hung
    BY <1>1, <2>2 DEF IInv, Closing
  <2> QED  BY <2>1, <2>3
<1> QED  BY <1>1, RunsInductive, PTL
=============================================================================
