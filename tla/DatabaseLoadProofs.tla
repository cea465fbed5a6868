------------------------- MODULE DatabaseLoadProofs -------------------------
(* Three promises of the loaders, for every number of runs and every         *)
(* schedule of their scripts and failures.  The wait of initdb lasts no      *)
(* longer than it may and gives up no database that answered in time; what   *)
(* is derived from the routes is of the routes that are there, or empty; and *)
(* a load that says it ended, undisturbed, wrote all of its tables.          *)
EXTENDS DatabaseLoad, TLAPS

Phases == {"idle", "connecting", "gave up", "checking", "refused", "dropping", "loading", "failed", "done"}

WaitTypeOK ==
    /\ phase \in [Loads -> Phases]
    /\ waited \in [Loads -> Nat]
    /\ ready \in [Loads -> Nat]

\* A pause begins within the budget, so what has been waited before an attempt
\* exceeds it by an interval at most.
Paused(l) == phase[l] # "gave up" => waited[l] <= WaitBudget + RetryInterval

\* The last attempt began before the database was ready and ended past the budget.
GaveUp(l) ==
    phase[l] = "gave up" =>
        /\ ready[l] > WaitBudget - RetryInterval
        /\ waited[l] >= WaitBudget
        /\ waited[l] <= WaitBudget + 2 * RetryInterval

WaitInv == WaitTypeOK /\ \A l \in Loads : Paused(l) /\ GaveUp(l)

LEMMA WaitInit == Init => WaitInv
BY WaitAssumption DEF Init, WaitInv, WaitTypeOK, Phases, Paused, GaveUp

\* An attempt that does not connect: the invariant for the load that tries.
LEMMA WaitAgainStep ==
    ASSUME WaitInv, NEW l \in Loads, phase[l] = "connecting", waited[l] < ready[l],
           NEW took \in 0..RetryInterval, WaitAgain(l, took), UNCHANGED ready
    PROVE  WaitInv'
<1> DEFINE spent == waited[l] + took
<1>a. WaitBudget \in Nat /\ RetryInterval \in Nat /\ took \in Nat /\ took <= RetryInterval
  BY WaitAssumption
<1>b. WaitTypeOK /\ waited[l] \in Nat /\ ready[l] \in Nat
  BY DEF WaitInv, WaitTypeOK
<1>c. Paused(l)
  BY DEF WaitInv
<1>d. waited[l] <= WaitBudget + RetryInterval
  BY <1>c DEF Paused
<1>0. /\ WaitBudget \in Nat /\ RetryInterval \in Nat /\ took \in Nat /\ took <= RetryInterval
      /\ WaitTypeOK /\ waited[l] \in Nat /\ ready[l] \in Nat /\ spent \in Nat
      /\ waited[l] <= WaitBudget + RetryInterval
  BY <1>a, <1>b, <1>d
<1>1. CASE spent >= WaitBudget
  <2>1. phase' = [phase EXCEPT ![l] = "gave up"] /\ waited' = [waited EXCEPT ![l] = spent] /\ ready' = ready
    BY <1>1 DEF WaitAgain
  <2>2. WaitTypeOK'
    BY <2>1, <1>0 DEF WaitTypeOK, Phases
  <2>3. phase'[l] = "gave up" /\ waited'[l] = spent /\ ready'[l] = ready[l]
    BY <2>1, <1>0 DEF WaitTypeOK
  <2>6. ready[l] > WaitBudget - RetryInterval /\ spent <= WaitBudget + 2 * RetryInterval
    BY <1>0, <1>1
  <2>7. Paused(l)' /\ GaveUp(l)'
    BY <2>3, <2>6, <1>1 DEF Paused, GaveUp
  <2>4. ASSUME NEW k \in Loads, k # l PROVE Paused(k)' /\ GaveUp(k)'
    BY <2>1, <2>4, <1>0 DEF WaitInv, WaitTypeOK, Paused, GaveUp
  <2>5. QED
    BY <2>2, <2>7, <2>4 DEF WaitInv
<1>2. CASE spent < WaitBudget
  <2>1. phase' = phase /\ waited' = [waited EXCEPT ![l] = spent + RetryInterval] /\ ready' = ready
    <3>1. ~(waited[l] + took >= WaitBudget)
      BY <1>2, <1>0
    <3>2. QED
      BY <3>1, Zenon DEF WaitAgain
  <2>2. WaitTypeOK'
    BY <2>1, <1>0 DEF WaitTypeOK
  <2>3. Paused(l)' /\ GaveUp(l)'
    BY <2>1, <1>0, <1>2 DEF WaitTypeOK, Paused, GaveUp
  <2>4. ASSUME NEW k \in Loads, k # l PROVE Paused(k)' /\ GaveUp(k)'
    BY <2>1, <2>4, <1>0 DEF WaitInv, WaitTypeOK, Paused, GaveUp
  <2>5. QED
    BY <2>2, <2>3, <2>4 DEF WaitInv
<1>3. QED
  BY <1>0, <1>1, <1>2

\* A step that leaves the wait alone and gives up no load.
LEMMA WaitKept ==
    ASSUME WaitInv, UNCHANGED <<waited, ready>>, phase' \in [Loads -> Phases],
           \A l \in Loads : phase[l] = "gave up" <=> phase'[l] = "gave up"
    PROVE  WaitInv'
BY DEF WaitInv, WaitTypeOK, Paused, GaveUp

LEMMA WaitStep == WaitInv /\ [Next]_vars => WaitInv'
<1> SUFFICES ASSUME WaitInv, [Next]_vars PROVE WaitInv'
  OBVIOUS
<1>0. WaitTypeOK /\ WaitBudget \in Nat /\ RetryInterval \in Nat /\ MaximumReady \in Nat
  BY WaitAssumption DEF WaitInv
<1>1. ASSUME NEW l \in Loads, Start(l) PROVE WaitInv'
  <2>1. PICK r \in 0..MaximumReady : ready' = [ready EXCEPT ![l] = r]
    BY <1>1 DEF Start
  <2>2. phase[l] = "idle" /\ phase' = [phase EXCEPT ![l] = "connecting"] /\ waited' = waited
    BY <1>1 DEF Start
  <2>a. r \in Nat
    BY <1>0
  <2>3. WaitTypeOK'
    BY <1>0, <2>1, <2>2, <2>a DEF WaitTypeOK, Phases
  <2>4. ASSUME NEW k \in Loads PROVE Paused(k)' /\ GaveUp(k)'
    BY <1>0, <2>1, <2>2, <2>4 DEF WaitInv, WaitTypeOK, Paused, GaveUp
  <2>5. QED
    BY <2>3, <2>4 DEF WaitInv
<1>2. ASSUME NEW l \in Loads, WaitForDatabase(l) PROVE WaitInv'
  <2>0. phase[l] = "connecting"
    BY <1>2 DEF WaitForDatabase
  <2>1. CASE Connected(l)
    <3>1. WaitTypeOK'
      BY <2>1, <1>0 DEF Connected, WaitTypeOK, Phases
    <3>2. phase'[l] = "checking" /\ waited'[l] = 0
      BY <2>1, <1>0 DEF Connected, WaitTypeOK
    <3>3. Paused(l)' /\ GaveUp(l)'
      BY <3>2, <1>0 DEF Paused, GaveUp
    <3>4. ASSUME NEW k \in Loads, k # l PROVE Paused(k)' /\ GaveUp(k)'
      <4>1. phase'[k] = phase[k] /\ waited'[k] = waited[k] /\ ready'[k] = ready[k]
        BY <2>1, <1>0, <3>4 DEF Connected, WaitTypeOK
      <4>2. Paused(k) /\ GaveUp(k)
        BY DEF WaitInv
      <4>3. QED
        BY <4>1, <4>2 DEF Paused, GaveUp
    <3>5. QED
      BY <3>1, <3>3, <3>4 DEF WaitInv
  <2>2. CASE phase' = [phase EXCEPT ![l] = "failed"] /\ UNCHANGED <<waited, ready>>
    BY <2>0, <2>2, <1>0, WaitKept DEF WaitTypeOK, Phases
  <2>3. CASE /\ waited[l] < ready[l] /\ ready' = ready
             /\ \E took \in 0..RetryInterval : WaitAgain(l, took)
    BY <2>0, <2>3, WaitAgainStep
  <2>4. QED
    BY <1>2, <2>1, <2>2, <2>3 DEF WaitForDatabase
<1>3. ASSUME NEW l \in Loads, Check(l) PROVE WaitInv'
  <2>1. PICK next \in {"loading", "dropping", "refused"} : phase' = [phase EXCEPT ![l] = next]
    BY <1>3 DEF Check, resolveExistingSchema
  <2>2. phase[l] = "checking" /\ UNCHANGED <<waited, ready>>
    BY <1>3 DEF Check, options
  <2>3. QED
    BY <1>0, <2>1, <2>2, WaitKept DEF WaitTypeOK, Phases
<1>4. ASSUME NEW l \in Loads, DropSchema(l) PROVE WaitInv'
  <2>1. PICK next \in {"loading", "failed"} : phase' = [phase EXCEPT ![l] = next]
    BY <1>4 DEF DropSchema
  <2>2. phase[l] = "dropping" /\ UNCHANGED <<waited, ready>>
    BY <1>4 DEF DropSchema, options
  <2>3. QED
    BY <1>0, <2>1, <2>2, WaitKept DEF WaitTypeOK, Phases
<1>5. ASSUME NEW l \in Loads, RunScript(l) PROVE WaitInv'
  <2>1. phase' = phase \/ \E next \in {"done", "failed"} : phase' = [phase EXCEPT ![l] = next]
    BY <1>5 DEF RunScript
  <2>2. phase[l] = "loading" /\ UNCHANGED <<waited, ready>>
    BY <1>5 DEF RunScript, options
  <2>3. QED
    BY <1>0, <2>1, <2>2, WaitKept DEF WaitTypeOK, Phases
<1>6. ASSUME NEW l \in Loads, Fail(l) PROVE WaitInv'
  <2>1. phase' = [phase EXCEPT ![l] = "failed"] /\ UNCHANGED <<waited, ready>>
    BY <1>6 DEF Fail, options
  <2>2. phase[l] \in {"connecting", "checking", "dropping", "loading"}
    BY <1>6 DEF Fail, Active
  <2>3. QED
    BY <1>0, <2>1, <2>2, WaitKept DEF WaitTypeOK, Phases
<1>7. ASSUME UNCHANGED <<phase, waited, ready>> PROVE WaitInv'
  BY <1>0, <1>7, WaitKept DEF WaitTypeOK
<1>8. Migrate \/ StoreCapture \/ UNCHANGED vars => UNCHANGED <<phase, waited, ready>>
  BY DEF Migrate, StoreCapture, vars, options
<1>9. QED
  BY <1>1, <1>2, <1>3, <1>4, <1>5, <1>6, <1>7, <1>8 DEF Next

\* "Retrying until the database accepts connections or the budget runs out":
\* whatever the other loads do and however long the attempts take, a load gives
\* up only a database that was not ready an interval before the budget's end, and
\* waits two intervals longer than the budget at most.
THEOREM WaitIsBounded == Spec => []WaitHonoursBudget
<1>1. WaitInv => WaitHonoursBudget
  <2> SUFFICES ASSUME WaitInv, NEW l \in Loads
               PROVE  /\ waited[l] <= WaitBudget + 2 * RetryInterval
                      /\ phase[l] = "gave up" => ready[l] > WaitBudget - RetryInterval /\ waited[l] >= WaitBudget
    BY DEF WaitHonoursBudget
  <2>1. Paused(l) /\ GaveUp(l) /\ waited[l] \in Nat /\ WaitBudget \in Nat /\ RetryInterval \in Nat
    BY WaitAssumption DEF WaitInv, WaitTypeOK
  <2>2. CASE phase[l] = "gave up"
    BY <2>1, <2>2 DEF GaveUp
  <2>3. CASE phase[l] # "gave up"
    <3>1. waited[l] <= WaitBudget + RetryInterval
      BY <2>1, <2>3 DEF Paused
    <3>2. waited[l] <= WaitBudget + 2 * RetryInterval
      BY <2>1, <3>1
    <3>3. QED
      BY <2>3, <3>2
  <2>4. QED
    BY <2>2, <2>3
<1>2. QED
  BY WaitInit, WaitStep, <1>1, PTL DEF Spec

-----------------------------------------------------------------------------
(* What is derived from the routes follows them.                           *)

RebuildTransfers == Rebuild("conexiones_recorridos", {"recorridos"})
RebuildRanking ==
    [Rebuild(Ranking, {"recorridos", "conexiones_recorridos", "combinaciones_od"}) EXCEPT !.needs = @ \cup {Zones}]
RebuildOD == Rebuild("combinaciones_od", {"viajes", "hexagonos_viajes"})

Watched == {"recorridos", "conexiones_recorridos", Ranking, "combinaciones_od"}
Growing == {"viajes", "hexagonos_viajes"}

\* A command that writes no watched table, and only adds to those the O-D
\* combinations come from.
Plain(c) ==
    /\ (c.creates \cup c.replaces \cup c.empties) \cap (Watched \cup Growing) = {}
    /\ \A q \in c.fills : q[1] \notin Watched

Commands ==
    {InitDB, DDL, ImportStreets, TransformarCalles, CrearRestriccionesRaw, copyStreetRestrictions,
     TransformarRestricciones, CrearGTFSRaw, TransformarGTFS, CrearViajesRaw,
     RebuildTransfers, RebuildRanking, RebuildOD}
    \cup {Copy(f) : f \in Files}
    \cup {Vacuum("recorridos"), Vacuum("conexiones_recorridos"), Vacuum(Ranking), Vacuum("viajes_raw"),
          Vacuum("viajes"), Vacuum("combinaciones_od")}
    \cup {Insert("viajes", {"viajes_raw"}), Insert("hexagonos_viajes", {"viajes"}),
          Insert("matriz_origen_destino", {"viajes", "hexagonos_viajes"}),
          Insert("tarifas_colectivo", {"tarifas_colectivo"})}

\* The command strings of a whole load, one by one.
AllSteps ==
    <<InitDB, DDL, ImportStreets, TransformarCalles, CrearRestriccionesRaw, copyStreetRestrictions,
      TransformarRestricciones, CrearGTFSRaw, Copy("gtfs_trips_raw"), Copy("gtfs_stop_times_raw"), TransformarGTFS,
      Vacuum("recorridos"), RebuildTransfers, Vacuum("conexiones_recorridos"), CrearViajesRaw, Copy("viajes_raw"),
      Vacuum("viajes_raw"), Insert("viajes", {"viajes_raw"}), Vacuum("viajes"),
      Insert("hexagonos_viajes", {"viajes"}), Insert("matriz_origen_destino", {"viajes", "hexagonos_viajes"}),
      RebuildOD, Vacuum("combinaciones_od"), RebuildRanking, Vacuum(Ranking),
      Insert("tarifas_colectivo", {"tarifas_colectivo"})>>

GTFSSteps ==
    <<CrearGTFSRaw, Copy("gtfs_trips_raw"), Copy("gtfs_stop_times_raw"), TransformarGTFS, Vacuum("recorridos"),
      RebuildTransfers, Vacuum("conexiones_recorridos")>>

\* The elements of a concatenation.
Concatenates(w, s, n, t, m) ==
    /\ Len(w) = n + m
    /\ \A i \in 1..n : w[i] = s[i]
    /\ \A i \in (n + 1)..(n + m) : w[i] = t[i - n]

LEMMA Concatenated ==
    ASSUME NEW S, NEW s \in Seq(S), NEW t \in Seq(S), NEW n \in Nat, NEW m \in Nat, Len(s) = n, Len(t) = m
    PROVE  s \o t \in Seq(S) /\ Concatenates(s \o t, s, n, t, m)
BY DEF Concatenates

LEMMA GTFSStepsListed ==
    /\ loadGTFS \in Seq(Commands) /\ Len(loadGTFS) = 7
    /\ \A i \in 1..7 : loadGTFS[i] = GTFSSteps[i]
<1> DEFINE first == <<CrearGTFSRaw>>
           second == <<Copy("gtfs_trips_raw"), Copy("gtfs_stop_times_raw")>>
           third == <<TransformarGTFS, Vacuum("recorridos")>>
           fourth == <<RebuildTransfers, Vacuum("conexiones_recorridos")>>
<1>1. copyGTFS = second
  BY DEF copyGTFS, gtfsFiles
<1>2. Conexiones = fourth
  BY DEF Conexiones, RebuildTransfers
<1>3. first \in Seq(Commands) /\ second \in Seq(Commands) /\ third \in Seq(Commands) /\ fourth \in Seq(Commands)
  <2>1. Copy("gtfs_trips_raw") \in Commands /\ Copy("gtfs_stop_times_raw") \in Commands
    BY DEF Commands, Files, Staging, gtfsFiles
  <2>q. QED
    BY <2>1 DEF Commands
<1>4. Len(first) = 1 /\ Len(second) = 2 /\ Len(third) = 2 /\ Len(fourth) = 2
  OBVIOUS
<1>5. /\ first[1] = GTFSSteps[1] /\ second[1] = GTFSSteps[2] /\ second[2] = GTFSSteps[3]
      /\ third[1] = GTFSSteps[4] /\ third[2] = GTFSSteps[5]
      /\ fourth[1] = GTFSSteps[6] /\ fourth[2] = GTFSSteps[7]
  BY DEF GTFSSteps
<1>6. loadGTFS = first \o second \o third \o fourth
  BY <1>1, <1>2 DEF loadGTFS
<1> HIDE DEF first, second, third, fourth
<1> DEFINE two == first \o second
           three == two \o third
           four == three \o fourth
<1>7. two \in Seq(Commands) /\ Concatenates(two, first, 1, second, 2)
  BY <1>3, <1>4, Concatenated
<1> HIDE DEF two
<1>l2. Len(two) = 3
  BY <1>7 DEF Concatenates
<1>8. three \in Seq(Commands) /\ Concatenates(three, two, 3, third, 2)
  BY <1>3, <1>4, <1>7, <1>l2, Concatenated
<1>9. loadGTFS = four
  BY <1>6 DEF two
<1> HIDE DEF three
<1>l3. Len(three) = 5
  BY <1>8 DEF Concatenates
<1>10. four \in Seq(Commands) /\ Concatenates(four, three, 5, fourth, 2)
  BY <1>3, <1>4, <1>8, <1>l3, Concatenated
<1> HIDE DEF four
<1>11. Len(loadGTFS) = 7
  BY <1>9, <1>10 DEF Concatenates
<1>q. QED
  BY <1>5, <1>7, <1>8, <1>9, <1>10, <1>11 DEF Concatenates

LEMMA StepsListed ==
    /\ steps \in Seq(Commands) /\ Len(steps) = 26
    /\ \A i \in 1..26 : steps[i] = AllSteps[i]
<1> DEFINE start == <<InitDB, DDL>>
           streets == <<ImportStreets, TransformarCalles>>
           restrictions == <<CrearRestriccionesRaw, copyStreetRestrictions, TransformarRestricciones>>
           survey == <<CrearViajesRaw, Copy("viajes_raw"), Vacuum("viajes_raw"), Insert("viajes", {"viajes_raw"}),
                       Vacuum("viajes"), Insert("hexagonos_viajes", {"viajes"}),
                       Insert("matriz_origen_destino", {"viajes", "hexagonos_viajes"}),
                       RebuildOD, Vacuum("combinaciones_od")>>
           ranking == <<RebuildRanking, Vacuum(Ranking)>>
           fares == <<Insert("tarifas_colectivo", {"tarifas_colectivo"})>>
<1>1. steps = start \o (streets \o restrictions) \o loadGTFS \o survey \o ranking \o fares
  BY DEF steps, importStreets, importStreetRestrictions, CombinacionesLineas, RebuildRanking, RebuildOD
<1>2. /\ start \in Seq(Commands) /\ streets \in Seq(Commands) /\ restrictions \in Seq(Commands)
      /\ ranking \in Seq(Commands) /\ fares \in Seq(Commands)
  BY DEF Commands
<1>3. survey \in Seq(Commands)
  <2>1. Copy("viajes_raw") \in Commands
    BY DEF Commands, Files
  <2>q. QED
    BY <2>1 DEF Commands
<1>4. /\ Len(start) = 2 /\ Len(streets) = 2 /\ Len(restrictions) = 3 /\ Len(survey) = 9
      /\ Len(ranking) = 2 /\ Len(fares) = 1
  OBVIOUS
<1>5. /\ start[1] = AllSteps[1] /\ start[2] = AllSteps[2]
      /\ streets[1] = AllSteps[3] /\ streets[2] = AllSteps[4]
      /\ restrictions[1] = AllSteps[5] /\ restrictions[2] = AllSteps[6] /\ restrictions[3] = AllSteps[7]
  BY DEF AllSteps
<1>6. /\ loadGTFS[1] = AllSteps[8] /\ loadGTFS[2] = AllSteps[9] /\ loadGTFS[3] = AllSteps[10]
      /\ loadGTFS[4] = AllSteps[11] /\ loadGTFS[5] = AllSteps[12] /\ loadGTFS[6] = AllSteps[13]
      /\ loadGTFS[7] = AllSteps[14]
  BY GTFSStepsListed DEF AllSteps, GTFSSteps
<1>7. /\ survey[1] = AllSteps[15] /\ survey[2] = AllSteps[16] /\ survey[3] = AllSteps[17]
      /\ survey[4] = AllSteps[18] /\ survey[5] = AllSteps[19] /\ survey[6] = AllSteps[20]
      /\ survey[7] = AllSteps[21] /\ survey[8] = AllSteps[22] /\ survey[9] = AllSteps[23]
  BY DEF AllSteps
<1>8. ranking[1] = AllSteps[24] /\ ranking[2] = AllSteps[25] /\ fares[1] = AllSteps[26]
  BY DEF AllSteps
<1> HIDE DEF start, streets, restrictions, survey, ranking, fares
<1> DEFINE a == streets \o restrictions
           b == start \o a
           c == b \o loadGTFS
           d == c \o survey
           e == d \o ranking
           f == e \o fares
<1>9. a \in Seq(Commands) /\ Concatenates(a, streets, 2, restrictions, 3)
  BY <1>2, <1>4, Concatenated
<1>10. steps = start \o a \o loadGTFS \o survey \o ranking \o fares
  BY <1>1
<1> HIDE DEF a
<1>la. Len(a) = 5
  BY <1>9 DEF Concatenates
<1>11. b \in Seq(Commands) /\ Concatenates(b, start, 2, a, 5)
  BY <1>2, <1>4, <1>9, <1>la, Concatenated
<1>12. steps = b \o loadGTFS \o survey \o ranking \o fares
  BY <1>10
<1> HIDE DEF b
<1>lb. Len(b) = 7
  BY <1>11 DEF Concatenates
<1>13. c \in Seq(Commands) /\ Concatenates(c, b, 7, loadGTFS, 7)
  BY <1>11, <1>lb, GTFSStepsListed, Concatenated
<1>14. steps = c \o survey \o ranking \o fares
  BY <1>12
<1> HIDE DEF c
<1>lc. Len(c) = 14
  BY <1>13 DEF Concatenates
<1>15. d \in Seq(Commands) /\ Concatenates(d, c, 14, survey, 9)
  BY <1>3, <1>4, <1>13, <1>lc, Concatenated
<1>16. steps = d \o ranking \o fares
  BY <1>14
<1> HIDE DEF d
<1>ld. Len(d) = 23
  BY <1>15 DEF Concatenates
<1>17. e \in Seq(Commands) /\ Concatenates(e, d, 23, ranking, 2)
  BY <1>2, <1>4, <1>15, <1>ld, Concatenated
<1>18. steps = f
  BY <1>16
<1> HIDE DEF e
<1>le. Len(e) = 25
  BY <1>17 DEF Concatenates
<1>19. f \in Seq(Commands) /\ Concatenates(f, e, 25, fares, 1)
  BY <1>2, <1>4, <1>17, <1>le, Concatenated
<1> HIDE DEF f
<1>20. b[1] = AllSteps[1] /\ b[2] = AllSteps[2] /\ \A i \in 3..7 : b[i] = AllSteps[i]
  BY <1>5, <1>9, <1>11 DEF Concatenates
<1>21. \A i \in 1..14 : c[i] = AllSteps[i]
  BY <1>6, <1>13, <1>20 DEF Concatenates
<1>22. /\ \A i \in 1..14 : d[i] = c[i]
       /\ \A i \in 15..23 : d[i] = survey[i - 14]
  BY <1>15 DEF Concatenates
<1>23. /\ d[15] = AllSteps[15] /\ d[16] = AllSteps[16] /\ d[17] = AllSteps[17]
       /\ d[18] = AllSteps[18] /\ d[19] = AllSteps[19] /\ d[20] = AllSteps[20]
       /\ d[21] = AllSteps[21] /\ d[22] = AllSteps[22] /\ d[23] = AllSteps[23]
  BY <1>7, <1>22
<1>24. \A i \in 1..23 : d[i] = AllSteps[i]
  BY <1>21, <1>22, <1>23
<1>25. /\ \A i \in 1..23 : e[i] = d[i]
       /\ e[24] = ranking[1] /\ e[25] = ranking[2]
  BY <1>17 DEF Concatenates
<1>26. /\ \A i \in 1..25 : f[i] = e[i]
       /\ f[26] = fares[1] /\ Len(f) = 26
  BY <1>19 DEF Concatenates
<1>27. \A i \in 1..26 : f[i] = AllSteps[i]
  BY <1>8, <1>24, <1>25, <1>26
<1>q. QED
  BY <1>18, <1>19, <1>26, <1>27

LEMMA ReloadListed ==
    /\ ReloadSteps \in Seq(Commands) /\ Len(ReloadSteps) = 9
    /\ \A i \in 1..7 : ReloadSteps[i] = GTFSSteps[i]
    /\ ReloadSteps[8] = RebuildRanking /\ ReloadSteps[9] = Vacuum(Ranking)
<1> DEFINE ranking == <<RebuildRanking, Vacuum(Ranking)>>
           all == loadGTFS \o ranking
<1>1. ReloadSteps = all
  BY DEF ReloadSteps, CombinacionesLineas, RebuildRanking
<1>2. ranking \in Seq(Commands) /\ Len(ranking) = 2 /\ ranking[1] = RebuildRanking /\ ranking[2] = Vacuum(Ranking)
  BY DEF Commands
<1> HIDE DEF ranking
<1>3. all \in Seq(Commands) /\ Concatenates(all, loadGTFS, 7, ranking, 2)
  BY <1>2, GTFSStepsListed, Concatenated
<1> HIDE DEF all
<1>4. /\ Len(all) = 9 /\ \A i \in 1..7 : all[i] = loadGTFS[i]
      /\ all[8] = ranking[1] /\ all[9] = ranking[2]
  BY <1>3 DEF Concatenates
<1>q. QED
  BY <1>1, <1>2, <1>3, <1>4, GTFSStepsListed

\* Both pipelines are sequences of these commands.
LEMMA PipelinesTyped ==
    /\ steps \in Seq(Commands) /\ Len(steps) >= 1
    /\ ReloadSteps \in Seq(Commands) /\ Len(ReloadSteps) >= 1
BY StepsListed, ReloadListed

\* The commands that write a watched table.
LEMMA CommandsKnown ==
    ASSUME NEW c \in Commands
    PROVE  Plain(c) \/ c \in {DDL, TransformarGTFS, RebuildTransfers, RebuildRanking, RebuildOD}
<1>1. /\ Plain(InitDB) /\ Plain(ImportStreets) /\ Plain(TransformarCalles) /\ Plain(CrearRestriccionesRaw)
      /\ Plain(copyStreetRestrictions) /\ Plain(TransformarRestricciones)
      /\ Plain(CrearViajesRaw)
  BY DEF Plain, Watched, Growing, Nothing, InitDB, ImportStreets, TransformarCalles, CrearRestriccionesRaw,
         copyStreetRestrictions, TransformarRestricciones, CrearViajesRaw, Network, Ranking
<1>2. Plain(CrearGTFSRaw)
  <2>1. Staging = {"gtfs_trips_raw", "gtfs_stop_times_raw"}
    BY DEF Staging, gtfsFiles
  <2>q. QED
    BY <2>1 DEF Plain, Watched, Growing, Nothing, CrearGTFSRaw, Ranking
<1>3. \A f \in Files : Plain(Copy(f))
  <2>1. Files = {"gtfs_trips_raw", "gtfs_stop_times_raw", "viajes_raw", "calles_raw"}
    BY DEF Files, Staging, gtfsFiles
  <2>q. QED
    BY <2>1 DEF Plain, Watched, Growing, Nothing, Copy, Ranking
<1>4. \A t : Plain(Vacuum(t))
  BY DEF Plain, Nothing, Vacuum
<1>5. \A t, sources : t \notin Watched => Plain(Insert(t, sources))
  BY DEF Plain, Nothing, Insert
<1>6. {"viajes", "hexagonos_viajes", "matriz_origen_destino", "tarifas_colectivo"} \cap Watched = {}
  BY DEF Watched, Ranking
<1>q. QED
  BY <1>1, <1>2, <1>3, <1>4, <1>5, <1>6 DEF Commands

\* The tables that a reload and the survey write exist together: one script
\* creates them.
Served == Watched \cup Growing

TransfersFollow == tables["conexiones_recorridos"] \in {{}, tables["recorridos"]}

RankingFollows ==
    tables[Ranking] # {} =>
        /\ tables["recorridos"] \subseteq tables[Ranking]
        /\ tables[Ranking] \subseteq tables["recorridos"] \cup tables["combinaciones_od"]

\* What an O-D combination came from is still there, so building them again
\* loses no load that the ranking has read.
CombinationsSupported ==
    tables["combinaciones_od"] # {} =>
        /\ tables["combinaciones_od"] \subseteq tables["viajes"] \cup tables["hexagonos_viajes"]
        /\ tables["viajes"] # {} /\ tables["hexagonos_viajes"] # {}

TablesInv ==
    "recorridos" \in DOMAIN tables =>
        Served \subseteq DOMAIN tables /\ TransfersFollow /\ RankingFollows /\ CombinationsSupported

ProgressInv ==
    /\ kind \in [Loads -> Kinds]
    /\ pc \in [Loads -> Nat]
    /\ \A l \in Loads : pc[l] \in 1..Len(Pipeline(l)) /\ (phase[l] = "idle" => pc[l] = 1)

LEMMA ServedTables ==
    Served = {"recorridos", "conexiones_recorridos", "combinaciones_lineas", "combinaciones_od",
              "viajes", "hexagonos_viajes"}
BY DEF Served, Watched, Growing, Ranking

\* A change that leaves the watched tables, but for a ranking it may empty, and
\* takes nothing from the others.
LEMMA TablesKept ==
    ASSUME TablesInv,
           "recorridos" \in DOMAIN tables' => "recorridos" \in DOMAIN tables,
           \A t \in Served : t \in DOMAIN tables => t \in DOMAIN tables',
           \A t \in Watched \ {Ranking} : t \in DOMAIN tables => tables'[t] = tables[t],
           Ranking \in DOMAIN tables => tables'[Ranking] \in {{}, tables[Ranking]},
           \A t \in Growing : t \in DOMAIN tables => tables[t] \subseteq tables'[t]
    PROVE  TablesInv'
<1> SUFFICES ASSUME "recorridos" \in DOMAIN tables'
             PROVE  (Served \subseteq DOMAIN tables /\ TransfersFollow /\ RankingFollows /\ CombinationsSupported)'
  BY DEF TablesInv
<1>1. Served \subseteq DOMAIN tables /\ TransfersFollow /\ RankingFollows /\ CombinationsSupported
  BY DEF TablesInv
<1>2. Served \subseteq DOMAIN tables'
  BY <1>1
<1>3. /\ tables'["recorridos"] = tables["recorridos"]
      /\ tables'["conexiones_recorridos"] = tables["conexiones_recorridos"]
      /\ tables'["combinaciones_od"] = tables["combinaciones_od"]
      /\ tables'[Ranking] \in {{}, tables[Ranking]}
      /\ tables["viajes"] \subseteq tables'["viajes"]
      /\ tables["hexagonos_viajes"] \subseteq tables'["hexagonos_viajes"]
  BY <1>1 DEF Served, Watched, Growing, Ranking
<1>4. TransfersFollow' /\ RankingFollows' /\ CombinationsSupported'
  BY <1>1, <1>3 DEF TransfersFollow, RankingFollows, CombinationsSupported
<1>q. QED
  BY <1>2, <1>4

LEMMA FollowInit == Init => TablesInv /\ ProgressInv
<1> SUFFICES ASSUME Init PROVE TablesInv /\ ProgressInv
  OBVIOUS
<1>1. TablesInv
  <2>1. CASE tables = <<>>
    BY <2>1 DEF TablesInv
  <2>2. CASE tables = Complete
    <3>1. Served \subseteq DOMAIN tables
      BY <2>2 DEF Complete, Served, Watched, Growing, Finals, Trips, Catalogue, Ranking, Zones
    <3>2. \A t \in Served : tables[t] = {Old}
      BY <2>2, <3>1 DEF Complete
    <3>q. QED
      BY <3>1, <3>2, ServedTables DEF TablesInv, TransfersFollow, RankingFollows, CombinationsSupported, Ranking
  <2>q. QED
    BY <2>1, <2>2 DEF Init
<1>2. ProgressInv
  <2>1. /\ kind = [l \in Loads |-> "init"] /\ pc = [l \in Loads |-> 1]
    BY DEF Init
  <2>2. \A l \in Loads : Pipeline(l) = steps
    BY <2>1 DEF Pipeline
  <2>3. Len(steps) \in Nat /\ Len(steps) >= 1
    BY PipelinesTyped
  <2>q. QED
    BY <2>1, <2>2, <2>3 DEF ProgressInv, Kinds
<1>q. QED
  BY <1>1, <1>2

\* A load's next command is one of those known.
LEMMA NextCommand ==
    ASSUME ProgressInv, NEW l \in Loads
    PROVE  Pipeline(l)[pc[l]] \in Commands /\ Len(Pipeline(l)) \in Nat
<1>1. Pipeline(l) \in Seq(Commands)
  BY PipelinesTyped DEF Pipeline
<1>2. pc[l] \in 1..Len(Pipeline(l))
  BY DEF ProgressInv
<1>q. QED
  BY <1>1, <1>2

\* A command that reads, and one that fills a table from others.
LEMMA AfterReads ==
    ASSUME NEW l, NEW c, NEW t, \A q \in c.fills : q[1] # t
    PROVE  After(l, c, t) = IF t \in c.creates \cup c.replaces \cup c.empties THEN {} ELSE tables[t]
<1>1. SourcesOf(c, t) = {}
  BY DEF SourcesOf
<1>q. QED
  BY <1>1 DEF After

LEMMA AfterRebuild ==
    ASSUME NEW l, NEW c, NEW t, NEW sources, t \notin sources, sources # {},
           t \in c.empties, c.fills = {t} \X sources
    PROVE  After(l, c, t) = Joined(sources)
<1>1. SourcesOf(c, t) = sources
  <2>1. ASSUME NEW s \in sources PROVE s \in SourcesOf(c, t)
    <3>1. <<t, s>> \in c.fills /\ <<t, s>>[1] = t /\ <<t, s>>[2] = s
      OBVIOUS
    <3>q. QED
      BY <3>1 DEF SourcesOf
  <2>2. SourcesOf(c, t) \subseteq sources
    BY DEF SourcesOf
  <2>q. QED
    BY <2>1, <2>2
<1>q. QED
  BY <1>1 DEF After

\* A command that has been accepted keeps what the tables promise.
Commits(l, c) ==
    /\ c.needs \subseteq DOMAIN tables
    /\ tables' = [t \in DOMAIN tables \cup c.creates \cup c.replaces |-> After(l, c, t)]

LEMMA PlainStep ==
    ASSUME TablesInv, NEW l \in Loads, NEW c, Plain(c), Commits(l, c)
    PROVE  TablesInv'
<1>1. \A t \in Watched : t \notin c.creates \cup c.replaces \cup c.empties
  BY DEF Plain
<1>2. \A t \in Growing : t \notin c.creates \cup c.replaces \cup c.empties
  BY DEF Plain
<1>3. ASSUME NEW t \in Watched, t \in DOMAIN tables PROVE tables'[t] = tables[t]
  <2>1. \A q \in c.fills : q[1] # t
    BY DEF Plain
  <2>2. After(l, c, t) = tables[t]
    BY <1>1, <2>1, AfterReads
  <2>q. QED
    BY <1>3, <2>2 DEF Commits
<1>4. ASSUME NEW t \in Growing, t \in DOMAIN tables PROVE tables[t] \subseteq tables'[t]
  <2>1. tables'[t] = After(l, c, t)
    BY <1>4 DEF Commits
  <2>q. QED
    BY <1>2, <2>1 DEF After
<1>5. "recorridos" \in Watched /\ Ranking \in Watched
  BY DEF Watched
<1>6. "recorridos" \in DOMAIN tables' => "recorridos" \in DOMAIN tables
  BY <1>1, <1>5 DEF Commits
<1>7. \A t \in Served : t \in DOMAIN tables => t \in DOMAIN tables'
  BY DEF Commits
<1>q. QED
  BY <1>3, <1>4, <1>5, <1>6, <1>7, TablesKept

LEMMA DDLStep ==
    ASSUME NEW l \in Loads, Commits(l, DDL)
    PROVE  TablesInv'
<1>1. DDL.creates = Finals /\ DDL.fills = {}
  BY DEF DDL, Nothing
<1>2. Served \subseteq Finals
  BY DEF Served, Watched, Growing, Finals, Trips, Catalogue, Ranking
<1>3. \A t \in Served : t \in DOMAIN tables' /\ tables'[t] = {}
  <2>1. \A t \in Served : After(l, DDL, t) = {}
    BY <1>1, <1>2, AfterReads
  <2>q. QED
    BY <1>1, <1>2, <2>1 DEF Commits
<1>q. QED
  BY <1>3, ServedTables DEF TablesInv, TransfersFollow, RankingFollows, CombinationsSupported, Ranking

LEMMA TransformStep ==
    ASSUME TablesInv, NEW l \in Loads, Commits(l, TransformarGTFS)
    PROVE  TablesInv'
<1> DEFINE c == TransformarGTFS
<1>1. /\ c.needs = Staging \cup Catalogue \cup {Ranking} /\ c.creates = {} /\ c.replaces = {}
      /\ c.empties = Catalogue \cup {Ranking} /\ c.fills = {"recorridos"} \X Staging
  BY DEF TransformarGTFS, Nothing
<1>2. Served \subseteq DOMAIN tables /\ CombinationsSupported
  BY <1>1 DEF TablesInv, Catalogue, Commits
<1>3. DOMAIN tables' = DOMAIN tables /\ \A t \in Served : tables'[t] = After(l, c, t)
  BY <1>1, <1>2 DEF Commits
<1> HIDE DEF c
<1>4. tables'["conexiones_recorridos"] = {} /\ tables'[Ranking] = {}
  <2>1. \A t \in {"conexiones_recorridos", Ranking} : After(l, c, t) = {}
    BY <1>1, AfterReads DEF Catalogue, Ranking
  <2>q. QED
    BY <1>3, <2>1, ServedTables DEF Ranking
<1>5. \A t \in {"combinaciones_od", "viajes", "hexagonos_viajes"} : tables'[t] = tables[t]
  <2>1. \A t \in {"combinaciones_od", "viajes", "hexagonos_viajes"} : After(l, c, t) = tables[t]
    BY <1>1, AfterReads DEF Catalogue, Ranking
  <2>q. QED
    BY <1>3, <2>1, ServedTables
<1>q. QED
  BY <1>2, <1>3, <1>4, <1>5 DEF TablesInv, TransfersFollow, RankingFollows, CombinationsSupported

\* The three scripts that empty a watched table and fill it from others.
Rebuilds(c, t, sources) ==
    /\ t \notin sources /\ sources # {}
    /\ c.creates = {} /\ c.replaces = {} /\ c.empties = {t} /\ c.fills = {t} \X sources
    /\ {t} \cup sources \subseteq c.needs

LEMMA RebuildStep ==
    ASSUME NEW l \in Loads, NEW c, NEW t, NEW sources, Rebuilds(c, t, sources), Commits(l, c)
    PROVE  /\ DOMAIN tables' = DOMAIN tables
           /\ tables'[t] = Joined(sources)
           /\ \A u \in DOMAIN tables \ {t} : tables'[u] = tables[u]
<1>1. After(l, c, t) = Joined(sources)
  BY AfterRebuild DEF Rebuilds
<1>2. ASSUME NEW u \in DOMAIN tables \ {t} PROVE tables'[u] = tables[u]
  <2>1. \A q \in c.fills : q[1] # u
    BY <1>2 DEF Rebuilds
  <2>2. After(l, c, u) = tables[u]
    BY <1>2, <2>1, AfterReads DEF Rebuilds
  <2>q. QED
    BY <1>2, <2>2 DEF Rebuilds, Commits
<1>q. QED
  BY <1>1, <1>2 DEF Rebuilds, Commits

LEMMA TransfersStep ==
    ASSUME TablesInv, NEW l \in Loads, Commits(l, RebuildTransfers)
    PROVE  TablesInv'
<1> DEFINE c == RebuildTransfers
           t == "conexiones_recorridos"
           sources == {"recorridos"}
<1>1. Rebuilds(c, t, sources)
  BY DEF RebuildTransfers, Rebuild, Nothing, Rebuilds, Ranking
<1>2. Commits(l, c)
  OBVIOUS
<1> HIDE DEF c
<1>3. {t} \cup sources \subseteq DOMAIN tables
  BY <1>1, <1>2 DEF Rebuilds, Commits
<1>4. /\ DOMAIN tables' = DOMAIN tables
      /\ tables'[t] = Joined(sources)
      /\ \A u \in DOMAIN tables \ {t} : tables'[u] = tables[u]
  BY <1>1, <1>2, RebuildStep
<1>5. Served \subseteq DOMAIN tables /\ RankingFollows /\ CombinationsSupported
  BY <1>3 DEF TablesInv
<1>6. tables'[t] \in {{}, tables["recorridos"]}
  BY <1>4 DEF Joined
<1>7. \A u \in Served \ {t} : tables'[u] = tables[u]
  BY <1>4, <1>5
<1>8. /\ tables'["recorridos"] = tables["recorridos"] /\ tables'[Ranking] = tables[Ranking]
      /\ tables'["combinaciones_od"] = tables["combinaciones_od"]
      /\ tables'["viajes"] = tables["viajes"] /\ tables'["hexagonos_viajes"] = tables["hexagonos_viajes"]
  BY <1>7, ServedTables DEF Ranking
<1>q. QED
  BY <1>4, <1>5, <1>6, <1>8 DEF TablesInv, TransfersFollow, RankingFollows, CombinationsSupported

LEMMA RankingStep ==
    ASSUME TablesInv, NEW l \in Loads, Commits(l, RebuildRanking)
    PROVE  TablesInv'
<1> DEFINE c == RebuildRanking
           sources == {"recorridos", "conexiones_recorridos", "combinaciones_od"}
<1>1. Rebuilds(c, Ranking, sources)
  BY DEF RebuildRanking, Rebuild, Nothing, Rebuilds, Ranking
<1>2. Commits(l, c)
  OBVIOUS
<1> HIDE DEF c
<1>3. {Ranking} \cup sources \subseteq DOMAIN tables
  BY <1>1, <1>2 DEF Rebuilds, Commits
<1>4. /\ DOMAIN tables' = DOMAIN tables
      /\ tables'[Ranking] = Joined(sources)
      /\ \A u \in DOMAIN tables \ {Ranking} : tables'[u] = tables[u]
  BY <1>1, <1>2, RebuildStep
<1>5. Served \subseteq DOMAIN tables /\ TransfersFollow /\ CombinationsSupported
  BY <1>3 DEF TablesInv
<1>6. tables'[Ranking] # {} =>
          tables'[Ranking] = tables["recorridos"] \cup tables["conexiones_recorridos"] \cup tables["combinaciones_od"]
  BY <1>4 DEF Joined
<1>7. tables["conexiones_recorridos"] \in {{}, tables["recorridos"]}
  BY <1>5 DEF TransfersFollow
<1>8. /\ tables'["recorridos"] = tables["recorridos"]
      /\ tables'["conexiones_recorridos"] = tables["conexiones_recorridos"]
      /\ tables'["combinaciones_od"] = tables["combinaciones_od"]
      /\ tables'["viajes"] = tables["viajes"] /\ tables'["hexagonos_viajes"] = tables["hexagonos_viajes"]
  BY <1>4, <1>5, ServedTables DEF Ranking
<1>9. RankingFollows'
  BY <1>6, <1>7, <1>8 DEF RankingFollows
<1>q. QED
  BY <1>4, <1>5, <1>8, <1>9 DEF TablesInv, TransfersFollow, CombinationsSupported

LEMMA CombinationsStep ==
    ASSUME TablesInv, NEW l \in Loads, Commits(l, RebuildOD)
    PROVE  TablesInv'
<1> DEFINE c == RebuildOD
           t == "combinaciones_od"
           sources == {"viajes", "hexagonos_viajes"}
<1>1. Rebuilds(c, t, sources)
  BY DEF RebuildOD, Rebuild, Nothing, Rebuilds, Ranking
<1>2. Commits(l, c)
  OBVIOUS
<1> HIDE DEF c
<1>3. {t} \cup sources \subseteq DOMAIN tables
  BY <1>1, <1>2 DEF Rebuilds, Commits
<1>4. /\ DOMAIN tables' = DOMAIN tables
      /\ tables'[t] = Joined(sources)
      /\ \A u \in DOMAIN tables \ {t} : tables'[u] = tables[u]
  BY <1>1, <1>2, RebuildStep
<1> SUFFICES ASSUME "recorridos" \in DOMAIN tables
             PROVE  (Served \subseteq DOMAIN tables /\ TransfersFollow /\ RankingFollows /\ CombinationsSupported)'
  BY <1>4 DEF TablesInv
<1>5. Served \subseteq DOMAIN tables /\ TransfersFollow /\ RankingFollows /\ CombinationsSupported
  BY DEF TablesInv
<1>6. /\ tables'["recorridos"] = tables["recorridos"] /\ tables'[Ranking] = tables[Ranking]
      /\ tables'["conexiones_recorridos"] = tables["conexiones_recorridos"]
      /\ tables'["viajes"] = tables["viajes"] /\ tables'["hexagonos_viajes"] = tables["hexagonos_viajes"]
  BY <1>4, <1>5, ServedTables DEF Ranking
<1>7. tables'[t] = IF tables["viajes"] = {} \/ tables["hexagonos_viajes"] = {} THEN {}
                   ELSE tables["viajes"] \cup tables["hexagonos_viajes"]
  BY <1>4 DEF Joined
<1>8. tables[t] \subseteq tables'[t]
  BY <1>5, <1>7 DEF CombinationsSupported
<1>9. CombinationsSupported'
  BY <1>6, <1>7 DEF CombinationsSupported
<1>10. RankingFollows' /\ TransfersFollow'
  BY <1>5, <1>6, <1>8 DEF RankingFollows, TransfersFollow
<1>q. QED
  BY <1>4, <1>5, <1>9, <1>10

LEMMA CommandStep ==
    ASSUME TablesInv, NEW l \in Loads, NEW c \in Commands, Commits(l, c)
    PROVE  TablesInv'
BY CommandsKnown, PlainStep, DDLStep, TransformStep, TransfersStep, RankingStep, CombinationsStep

LEMMA MigrateStep == TablesInv /\ Migrate => TablesInv'
<1> SUFFICES ASSUME TablesInv, Migrate PROVE TablesInv'
  OBVIOUS
<1>1. /\ Ranking \in DOMAIN tables
      /\ tables' = [t \in (DOMAIN tables \ {Flows}) \cup {Zones} |-> IF t \in {Ranking, Zones} THEN {} ELSE tables[t]]
  BY DEF Migrate
<1>2. \A t \in Served : t # Flows /\ t # Zones
  BY ServedTables DEF Flows, Zones
<1>3. ASSUME NEW t \in Served, t \in DOMAIN tables, t # Ranking PROVE t \in DOMAIN tables' /\ tables'[t] = tables[t]
  BY <1>1, <1>2, <1>3
<1>4. Ranking \in Served /\ "recorridos" \in Served /\ Ranking \notin Growing
  BY DEF Served, Watched, Growing, Ranking
<1>5. Ranking \in DOMAIN tables' /\ tables'[Ranking] = {}
  BY <1>1, <1>2, <1>4
<1>6. "recorridos" \in DOMAIN tables' => "recorridos" \in DOMAIN tables
  BY <1>1, <1>2, <1>4
<1>q. QED
  BY <1>3, <1>4, <1>5, <1>6, TablesKept DEF Served

LEMMA StoreStep == TablesInv /\ StoreCapture => TablesInv'
<1> SUFFICES ASSUME TablesInv, StoreCapture PROVE TablesInv'
  OBVIOUS
<1>1. tables' = [tables EXCEPT !["capturas_colectivos"] = {"worker"}]
  BY DEF StoreCapture
<1>2. \A t \in Served : t # "capturas_colectivos"
  BY ServedTables
<1>3. \A t \in Served \cap DOMAIN tables : tables'[t] = tables[t]
  BY <1>1, <1>2
<1>q. QED
  BY <1>1, <1>3, TablesKept DEF Served, Watched

\* The command that a load runs.
LEMMA RunStep ==
    ASSUME TablesInv, ProgressInv, NEW l \in Loads, RunScript(l)
    PROVE  TablesInv'
<1> DEFINE c == Pipeline(l)[pc[l]]
<1>1. c \in Commands
  BY NextCommand
<1>2. \/ UNCHANGED tables
      \/ Accepted(l, c) /\ tables' = [t \in DOMAIN tables \cup c.creates \cup c.replaces |-> After(l, c, t)]
  BY Zenon DEF RunScript
<1> HIDE DEF c
<1>3. Accepted(l, c) => c.needs \subseteq DOMAIN tables
  BY DEF Accepted
<1>4. CASE UNCHANGED tables
  BY <1>4 DEF TablesInv, TransfersFollow, RankingFollows, CombinationsSupported
<1>5. CASE Commits(l, c)
  BY <1>1, <1>5, CommandStep
<1>q. QED
  BY <1>2, <1>3, <1>4, <1>5 DEF Commits

\* The loads advance within their pipelines.
LEMMA ProgressKept ==
    ASSUME ProgressInv, UNCHANGED <<kind, pc>>,
           \A l \in Loads : phase'[l] = "idle" => phase[l] = "idle"
    PROVE  ProgressInv'
<1>1. \A l \in Loads : Pipeline(l)' = Pipeline(l)
  BY DEF Pipeline
<1>q. QED
  BY <1>1 DEF ProgressInv

LEMMA ProgressStep ==
    ASSUME WaitTypeOK, ProgressInv, [Next]_vars
    PROVE  ProgressInv'
<1>1. phase \in [Loads -> Phases]
  BY DEF WaitTypeOK
<1>2. ASSUME NEW l \in Loads, Start(l) PROVE ProgressInv'
  <2>1. PICK k \in Kinds : kind' = [kind EXCEPT ![l] = k]
    BY <1>2 DEF Start
  <2>2. /\ phase[l] = "idle" /\ pc' = pc
        /\ phase' = [phase EXCEPT ![l] = "connecting"]
    BY <1>2 DEF Start
  <2>3. pc[l] = 1
    BY <2>2 DEF ProgressInv
  <2>4. Len(Pipeline(l)') \in Nat /\ Len(Pipeline(l)') >= 1
    BY PipelinesTyped DEF Pipeline
  <2>5. ASSUME NEW m \in Loads, m # l PROVE Pipeline(m)' = Pipeline(m)
    <3>1. kind'[m] = kind[m]
      BY <2>1, <2>5 DEF ProgressInv
    <3>q. QED
      BY <3>1 DEF Pipeline
  <2>6. \A m \in Loads : phase'[m] = "idle" => phase[m] = "idle"
    BY <1>1, <2>2
  <2>7. kind' \in [Loads -> Kinds] /\ pc' \in [Loads -> Nat]
    BY <2>1, <2>2 DEF ProgressInv
  <2>8. ASSUME NEW m \in Loads
        PROVE  pc'[m] \in 1..Len(Pipeline(m)') /\ (phase'[m] = "idle" => pc'[m] = 1)
    <3>1. CASE m = l
      BY <2>2, <2>3, <2>4, <3>1
    <3>2. CASE m # l
      BY <2>2, <2>5, <2>6, <3>2 DEF ProgressInv
    <3>q. QED
      BY <3>1, <3>2
  <2>q. QED
    BY <2>7, <2>8 DEF ProgressInv
<1>3. ASSUME NEW l \in Loads, NEW to, to # "idle", phase' = [phase EXCEPT ![l] = to], UNCHANGED <<kind, pc>>
      PROVE  ProgressInv'
  <2>1. \A m \in Loads : phase'[m] = "idle" => phase[m] = "idle"
    BY <1>1, <1>3
  <2>q. QED
    BY <1>3, <2>1, ProgressKept
<1>4. ASSUME UNCHANGED <<kind, pc, phase>> PROVE ProgressInv'
  BY <1>4, ProgressKept
<1>5. ASSUME NEW l \in Loads, WaitForDatabase(l) PROVE ProgressInv'
  <2>1. kind' = kind /\ pc' = pc
    BY <1>5 DEF WaitForDatabase
  <2>2. phase' = phase \/ \E to : to # "idle" /\ phase' = [phase EXCEPT ![l] = to]
    <3>1. "checking" # "idle" /\ "failed" # "idle" /\ "gave up" # "idle"
      OBVIOUS
    <3>q. QED
      BY <1>5, <3>1, Zenon DEF WaitForDatabase, Connected, WaitAgain
  <2>q. QED
    BY <1>3, <1>4, <2>1, <2>2
<1>6. ASSUME NEW l \in Loads, Check(l) \/ DropSchema(l) \/ Fail(l) PROVE ProgressInv'
  <2>1. kind' = kind /\ pc' = pc
    BY <1>6 DEF Check, DropSchema, Fail, options
  <2>2. \E to \in {"refused", "loading", "dropping", "failed"} : phase' = [phase EXCEPT ![l] = to]
    BY <1>6 DEF Check, DropSchema, Fail, resolveExistingSchema
  <2>q. QED
    BY <1>3, <2>1, <2>2
<1>7. ASSUME NEW l \in Loads, RunScript(l) PROVE ProgressInv'
  <2>1. kind' = kind
    BY <1>7 DEF RunScript, options
  <2>2. \/ pc' = pc /\ \E to \in {"done", "failed"} : phase' = [phase EXCEPT ![l] = to]
        \/ /\ pc[l] # Len(Pipeline(l)) /\ phase[l] = "loading"
           /\ pc' = [pc EXCEPT ![l] = @ + 1] /\ phase' = phase
    BY <1>7 DEF RunScript
  <2>3. CASE /\ pc[l] # Len(Pipeline(l)) /\ phase[l] = "loading"
             /\ pc' = [pc EXCEPT ![l] = @ + 1] /\ phase' = phase
    <3>1. \A m \in Loads : Pipeline(m)' = Pipeline(m)
      BY <2>1 DEF Pipeline
    <3>2. pc[l] \in 1..Len(Pipeline(l)) /\ Len(Pipeline(l)) \in Nat
      BY NextCommand DEF ProgressInv
    <3>3. pc[l] + 1 \in 1..Len(Pipeline(l))
      BY <2>3, <3>2
    <3>q. QED
      BY <2>1, <2>3, <3>1, <3>3 DEF ProgressInv
  <2>q. QED
    BY <1>3, <2>1, <2>2, <2>3
<1>8. Migrate \/ StoreCapture \/ UNCHANGED vars => UNCHANGED <<kind, pc, phase>>
  BY DEF Migrate, StoreCapture, vars, options
<1>q. QED
  BY <1>2, <1>4, <1>5, <1>6, <1>7, <1>8 DEF Next

LEMMA FollowStep ==
    ASSUME WaitInv, TablesInv, ProgressInv, [Next]_vars
    PROVE  TablesInv' /\ ProgressInv'
<1>1. ProgressInv'
  BY ProgressStep DEF WaitInv
<1>2. ASSUME UNCHANGED tables PROVE TablesInv'
  BY <1>2 DEF TablesInv, TransfersFollow, RankingFollows, CombinationsSupported
<1>3. ASSUME NEW l \in Loads, DropSchema(l) PROVE TablesInv'
  BY <1>3 DEF DropSchema, TablesInv
<1>4. ASSUME NEW l \in Loads, Start(l) \/ WaitForDatabase(l) \/ Check(l) \/ Fail(l) PROVE UNCHANGED tables
  BY <1>4 DEF Start, WaitForDatabase, Check, Fail
<1>q. QED
  BY <1>1, <1>2, <1>3, <1>4, RunStep, MigrateStep, StoreStep DEF Next, vars

\* The transfers and the ranking that the API serves are of the routes it serves,
\* or empty, whatever the loads that fail, follow or overlap each other: each
\* script that replaces the routes empties, in the same commit, what is derived
\* from them, and the scripts that follow read the routes they find.
THEOREM DerivedTablesFollow == Spec => []DerivedFollowCatalogue
<1>1. Init => WaitInv /\ TablesInv /\ ProgressInv
  BY WaitInit, FollowInit
<1>2. (WaitInv /\ TablesInv /\ ProgressInv) /\ [Next]_vars => (WaitInv /\ TablesInv /\ ProgressInv)'
  BY WaitStep, FollowStep
<1>3. TablesInv => DerivedFollowCatalogue
  BY DEF TablesInv, TransfersFollow, RankingFollows, DerivedFollowCatalogue
<1>q. QED
  BY <1>1, <1>2, <1>3, PTL DEF Spec

-----------------------------------------------------------------------------
(* A load that says it ended, and that no other one disturbed, wrote every  *)
(* table from its own files.                                                *)

\* The place of a whole load's pipeline that fills a table; past its end, none.
FilledAt(t) ==
    CASE t = "calles_raw" -> 3 [] t = "calles" -> 4 [] t = "calles_restricciones_raw" -> 6
      [] t = "calles_restricciones" -> 7 [] t = "gtfs_trips_raw" -> 9 [] t = "gtfs_stop_times_raw" -> 10
      [] t = "recorridos" -> 11 [] t = "conexiones_recorridos" -> 13 [] t = "viajes_raw" -> 16
      [] t = "viajes" -> 18 [] t = "hexagonos_viajes" -> 20 [] t = "matriz_origen_destino" -> 21
      [] t = "combinaciones_od" -> 22 [] t = "combinaciones_lineas" -> 24 [] t = "tarifas_colectivo" -> 26
      [] OTHER -> 27

\* Whole loads begin in an empty schema; what they have filled so far is theirs,
\* and no row is of another load.
WholeLoad(l) ==
    /\ \A t \in DOMAIN tables \ {"capturas_colectivos"} : tables[t] \subseteq {l}
    /\ \A t : FilledAt(t) < pc[l] => t \in DOMAIN tables /\ tables[t] = {l}

\* A reload has passed the check, which asks for the flows that the ranking had
\* before the zones that its last script asks for: it stops there.
PartialLoad(l) == Flows \in DOMAIN tables /\ pc[l] <= 8

Undisturbed(l) ==
    phase[l] = "loading" /\ l \notin disturbed => IF kind[l] = "reload" THEN PartialLoad(l) ELSE WholeLoad(l)

SuccessInv ==
    /\ schema \in BOOLEAN
    /\ ~schema => DOMAIN tables = {}
    /\ Flows \in DOMAIN tables => Zones \notin DOMAIN tables /\ "recorridos" \in DOMAIN tables
    /\ \A l \in Loads : phase[l] \in {"connecting", "checking", "dropping"} => pc[l] = 1
    /\ \A l \in Loads : phase[l] = "dropping" => kind[l] = "reset"
    /\ \A l \in Loads : Undisturbed(l)

\* The tables in the order of their places; every other place fills none.
LEMMA PlacesFilled ==
    /\ \A t : FilledAt(t) \in 3..27
    /\ \A t : FilledAt(t) = 3 <=> t = "calles_raw"
    /\ \A t : FilledAt(t) = 4 <=> t = "calles"
    /\ \A t : FilledAt(t) = 6 <=> t = "calles_restricciones_raw"
    /\ \A t : FilledAt(t) = 7 <=> t = "calles_restricciones"
    /\ \A t : FilledAt(t) = 9 <=> t = "gtfs_trips_raw"
    /\ \A t : FilledAt(t) = 10 <=> t = "gtfs_stop_times_raw"
    /\ \A t : FilledAt(t) = 11 <=> t = "recorridos"
    /\ \A t : FilledAt(t) = 13 <=> t = "conexiones_recorridos"
    /\ \A t : FilledAt(t) = 16 <=> t = "viajes_raw"
    /\ \A t : FilledAt(t) = 18 <=> t = "viajes"
    /\ \A t : FilledAt(t) = 20 <=> t = "hexagonos_viajes"
    /\ \A t : FilledAt(t) = 21 <=> t = "matriz_origen_destino"
    /\ \A t : FilledAt(t) = 22 <=> t = "combinaciones_od"
    /\ \A t : FilledAt(t) = 24 <=> t = "combinaciones_lineas"
    /\ \A t : FilledAt(t) = 26 <=> t = "tarifas_colectivo"
    /\ \A t : FilledAt(t) \notin {5, 8, 12, 14, 15, 17, 19, 23, 25}
BY DEF FilledAt

\* What a command at a place may do: it fills the table of its place, from a
\* file or from tables that are filled before, and clears none that was.
Sound(k, c) ==
    /\ \A q \in c.fills : FilledAt(q[1]) = k
    /\ \A t : FilledAt(t) = k =>
            /\ t \in c.needs \cup c.creates \cup c.replaces
            /\ SourcesOf(c, t) # {}
            /\ SourcesOf(c, t) = {t} \/ \A s \in SourcesOf(c, t) : s # t /\ FilledAt(s) < k
    /\ \A t \in c.creates \cup c.replaces \cup c.empties : FilledAt(t) >= k

LEMMA FillsNone ==
    ASSUME NEW k \in Nat, NEW c, c.fills = {}, \A t : FilledAt(t) # k,
           \A t \in c.creates \cup c.replaces \cup c.empties : FilledAt(t) >= k
    PROVE  Sound(k, c)
BY DEF Sound

\* Where the rows of a table come from at place k: a file, or tables filled before.
ComeFrom(k, table, sources) == sources = {table} \/ \A s \in sources : s # table /\ FilledAt(s) < k

ClearsNone(k, c) == \A t \in c.creates \cup c.replaces \cup c.empties : FilledAt(t) >= k

LEMMA FillsFrom ==
    ASSUME NEW k \in Nat, NEW c, NEW table, NEW sources, c.fills = {table} \X sources, sources # {},
           \A t : FilledAt(t) = k <=> t = table,
           table \in c.needs \cup c.creates \cup c.replaces,
           ComeFrom(k, table, sources), ClearsNone(k, c)
    PROVE  Sound(k, c)
<1>1. SourcesOf(c, table) = sources
  <2>1. ASSUME NEW s \in sources PROVE s \in SourcesOf(c, table)
    <3>1. <<table, s>> \in c.fills /\ <<table, s>>[1] = table /\ <<table, s>>[2] = s
      OBVIOUS
    <3>q. QED
      BY <3>1 DEF SourcesOf
  <2>2. SourcesOf(c, table) \subseteq sources
    BY DEF SourcesOf
  <2>q. QED
    BY <2>1, <2>2
<1>2. \A q \in c.fills : q[1] = table
  OBVIOUS
<1>q. QED
  BY <1>1, <1>2 DEF Sound, ComeFrom, ClearsNone

LEMMA VacuumSound ==
    ASSUME NEW k \in Nat, NEW t, \A u : FilledAt(u) # k
    PROVE  Sound(k, Vacuum(t))
BY FillsNone DEF Vacuum, Nothing

LEMMA CopySound ==
    ASSUME NEW k \in Nat, NEW file, \A t : FilledAt(t) = k <=> t = file
    PROVE  Sound(k, Copy(file))
<1>1. /\ Copy(file).fills = {<<file, file>>} /\ Copy(file).needs = {file}
      /\ Copy(file).creates \cup Copy(file).replaces \cup Copy(file).empties = {}
  BY DEF Copy, Nothing
<1>2. Copy(file).fills = {file} \X {file}
  BY <1>1
<1>q. QED
  BY <1>1, <1>2, FillsFrom DEF ComeFrom, ClearsNone

LEMMA InsertSound ==
    ASSUME NEW k \in Nat, NEW table, NEW sources, sources # {},
           \A t : FilledAt(t) = k <=> t = table,
           ComeFrom(k, table, sources)
    PROVE  Sound(k, Insert(table, sources)) /\ Sound(k, Rebuild(table, sources))
<1>1. /\ Insert(table, sources).fills = {table} \X sources /\ table \in Insert(table, sources).needs
      /\ Insert(table, sources).creates \cup Insert(table, sources).replaces \cup Insert(table, sources).empties = {}
  BY DEF Insert, Nothing
<1>2. /\ Rebuild(table, sources).fills = {table} \X sources /\ table \in Rebuild(table, sources).needs
      /\ Rebuild(table, sources).creates \cup Rebuild(table, sources).replaces
             \cup Rebuild(table, sources).empties = {table}
  BY DEF Rebuild, Nothing
<1>3. Sound(k, Insert(table, sources))
  BY <1>1, FillsFrom DEF ClearsNone
<1>4. Sound(k, Rebuild(table, sources))
  <2>1. ClearsNone(k, Rebuild(table, sources))
    BY <1>2 DEF ClearsNone
  <2>q. QED
    BY <1>2, <2>1, FillsFrom
<1>q. QED
  BY <1>3, <1>4

LEMMA StreetsSound ==
    /\ Sound(1, InitDB) /\ Sound(2, DDL) /\ Sound(3, ImportStreets) /\ Sound(4, TransformarCalles)
    /\ Sound(5, CrearRestriccionesRaw) /\ Sound(6, copyStreetRestrictions) /\ Sound(7, TransformarRestricciones)
<1>1. Sound(1, InitDB) /\ Sound(2, DDL)
  <2>1. \A t : FilledAt(t) >= 2 /\ FilledAt(t) # 1 /\ FilledAt(t) # 2
    BY PlacesFilled
  <2>2. Sound(1, InitDB)
    BY <2>1, FillsNone DEF InitDB, Nothing
  <2>3. DDL.fills = {}
    BY DEF DDL, Nothing
  <2>q. QED
    BY <2>1, <2>2, <2>3, FillsNone
<1>2. Sound(3, ImportStreets)
  <2>1. /\ ImportStreets.fills = {"calles_raw"} \X {"calles_raw"} /\ ImportStreets.replaces = {"calles_raw"}
        /\ ImportStreets.creates = {} /\ ImportStreets.empties = {}
    BY DEF ImportStreets, Nothing
  <2>2. FilledAt("calles_raw") >= 3 /\ \A t : FilledAt(t) = 3 <=> t = "calles_raw"
    BY PlacesFilled
  <2>3. ClearsNone(3, ImportStreets)
    BY <2>1, <2>2 DEF ClearsNone
  <2>q. QED
    BY <2>1, <2>2, <2>3, FillsFrom DEF ComeFrom
<1>3. Sound(4, TransformarCalles)
  <2> DEFINE sources == {"calles_raw"}
  <2>1. /\ TransformarCalles.fills = {"calles"} \X sources /\ sources # {}
        /\ "calles" \in TransformarCalles.needs
        /\ TransformarCalles.empties = {"calles", "calles_restricciones"}
        /\ TransformarCalles.creates = {} /\ TransformarCalles.replaces = {}
    BY DEF TransformarCalles, Nothing, Network
  <2>2. FilledAt("calles_raw") < 4 /\ FilledAt("calles") >= 4 /\ FilledAt("calles_restricciones") >= 4
    BY PlacesFilled
  <2>3. \A t : FilledAt(t) = 4 <=> t = "calles"
    BY PlacesFilled
  <2>4. ClearsNone(4, TransformarCalles)
    BY <2>1, <2>2 DEF ClearsNone
  <2>5. ComeFrom(4, "calles", sources)
    BY <2>2 DEF ComeFrom
  <2> HIDE DEF sources
  <2>q. QED
    BY <2>1, <2>3, <2>4, <2>5, FillsFrom
<1>4. Sound(5, CrearRestriccionesRaw)
  <2>1. /\ CrearRestriccionesRaw.fills = {} /\ CrearRestriccionesRaw.replaces = {"calles_restricciones_raw"}
        /\ CrearRestriccionesRaw.creates = {} /\ CrearRestriccionesRaw.empties = {}
    BY DEF CrearRestriccionesRaw, Nothing
  <2>2. FilledAt("calles_restricciones_raw") >= 5 /\ \A t : FilledAt(t) # 5
    BY PlacesFilled
  <2>q. QED
    BY <2>1, <2>2, FillsNone
<1>5. Sound(6, copyStreetRestrictions)
  <2>1. /\ copyStreetRestrictions.fills = {"calles_restricciones_raw"} \X {"calles_restricciones_raw"}
        /\ copyStreetRestrictions.needs = {"calles_restricciones_raw"}
        /\ copyStreetRestrictions.creates = {} /\ copyStreetRestrictions.replaces = {}
        /\ copyStreetRestrictions.empties = {}
    BY DEF copyStreetRestrictions, Nothing
  <2>2. \A t : FilledAt(t) = 6 <=> t = "calles_restricciones_raw"
    BY PlacesFilled
  <2>q. QED
    BY <2>1, <2>2, FillsFrom DEF ComeFrom, ClearsNone
<1>6. Sound(7, TransformarRestricciones)
  <2>1. /\ TransformarRestricciones.fills = {"calles_restricciones"} \X {"calles_restricciones_raw", "calles"}
        /\ "calles_restricciones" \in TransformarRestricciones.needs
        /\ TransformarRestricciones.creates = {} /\ TransformarRestricciones.replaces = {}
        /\ TransformarRestricciones.empties = {"calles_restricciones"}
    BY DEF TransformarRestricciones, Nothing, Network
  <2>2. /\ \A t : FilledAt(t) = 7 <=> t = "calles_restricciones"
        /\ FilledAt("calles_restricciones_raw") < 7 /\ FilledAt("calles") < 7
    BY PlacesFilled
  <2>3. ClearsNone(7, TransformarRestricciones)
    BY <2>1, <2>2 DEF ClearsNone
  <2>4. ComeFrom(7, "calles_restricciones", {"calles_restricciones_raw", "calles"})
    BY <2>2 DEF ComeFrom
  <2>q. QED
    BY <2>1, <2>2, <2>3, <2>4, FillsFrom
<1>q. QED
  BY <1>1, <1>2, <1>3, <1>4, <1>5, <1>6

LEMMA GTFSSound ==
    /\ Sound(8, CrearGTFSRaw) /\ Sound(9, Copy("gtfs_trips_raw")) /\ Sound(10, Copy("gtfs_stop_times_raw"))
    /\ Sound(11, TransformarGTFS) /\ Sound(12, Vacuum("recorridos"))
    /\ Sound(13, RebuildTransfers) /\ Sound(14, Vacuum("conexiones_recorridos"))
<1>0. Staging = {"gtfs_trips_raw", "gtfs_stop_times_raw"}
  BY DEF Staging, gtfsFiles
<1>1. Sound(8, CrearGTFSRaw)
  <2>1. /\ CrearGTFSRaw.fills = {} /\ CrearGTFSRaw.replaces = Staging
        /\ CrearGTFSRaw.creates = {} /\ CrearGTFSRaw.empties = {}
    BY DEF CrearGTFSRaw, Nothing
  <2>2. FilledAt("gtfs_trips_raw") >= 8 /\ FilledAt("gtfs_stop_times_raw") >= 8 /\ \A t : FilledAt(t) # 8
    BY PlacesFilled
  <2>q. QED
    BY <1>0, <2>1, <2>2, FillsNone
<1>2. Sound(9, Copy("gtfs_trips_raw")) /\ Sound(10, Copy("gtfs_stop_times_raw"))
  <2>1. /\ \A t : FilledAt(t) = 9 <=> t = "gtfs_trips_raw"
        /\ \A t : FilledAt(t) = 10 <=> t = "gtfs_stop_times_raw"
    BY PlacesFilled
  <2>q. QED
    BY <2>1, CopySound
<1>3. Sound(11, TransformarGTFS)
  <2>1. /\ TransformarGTFS.fills = {"recorridos"} \X Staging /\ "recorridos" \in TransformarGTFS.needs
        /\ TransformarGTFS.empties = {"recorridos", "conexiones_recorridos", "combinaciones_lineas"}
        /\ TransformarGTFS.creates = {} /\ TransformarGTFS.replaces = {}
    BY DEF TransformarGTFS, Nothing, Catalogue, Ranking
  <2>2. /\ FilledAt("recorridos") >= 11 /\ FilledAt("conexiones_recorridos") >= 11
        /\ FilledAt("combinaciones_lineas") >= 11
        /\ FilledAt("gtfs_trips_raw") < 11 /\ FilledAt("gtfs_stop_times_raw") < 11
    BY PlacesFilled
  <2>3. \A t : FilledAt(t) = 11 <=> t = "recorridos"
    BY PlacesFilled
  <2>4. ClearsNone(11, TransformarGTFS)
    BY <2>1, <2>2 DEF ClearsNone
  <2>5. ComeFrom(11, "recorridos", Staging)
    BY <1>0, <2>2 DEF ComeFrom
  <2>6. Staging # {}
    BY <1>0
  <2>q. QED
    BY <2>1, <2>3, <2>4, <2>5, <2>6, FillsFrom
<1>4. Sound(12, Vacuum("recorridos")) /\ Sound(14, Vacuum("conexiones_recorridos"))
  <2>1. \A t : FilledAt(t) # 12 /\ FilledAt(t) # 14
    BY PlacesFilled
  <2>q. QED
    BY <2>1, VacuumSound
<1>5. Sound(13, RebuildTransfers)
  <2>1. (\A t : FilledAt(t) = 13 <=> t = "conexiones_recorridos") /\ FilledAt("recorridos") < 13
    BY PlacesFilled
  <2>2. ComeFrom(13, "conexiones_recorridos", {"recorridos"})
    BY <2>1 DEF ComeFrom
  <2>q. QED
    BY <2>1, <2>2, InsertSound DEF RebuildTransfers
<1>q. QED
  BY <1>1, <1>2, <1>3, <1>4, <1>5

LEMMA TripsSound ==
    /\ Sound(15, CrearViajesRaw) /\ Sound(16, Copy("viajes_raw")) /\ Sound(17, Vacuum("viajes_raw"))
    /\ Sound(18, Insert("viajes", {"viajes_raw"})) /\ Sound(19, Vacuum("viajes"))
    /\ Sound(20, Insert("hexagonos_viajes", {"viajes"}))
    /\ Sound(21, Insert("matriz_origen_destino", {"viajes", "hexagonos_viajes"}))
    /\ Sound(22, RebuildOD) /\ Sound(23, Vacuum("combinaciones_od"))
    /\ Sound(24, RebuildRanking) /\ Sound(25, Vacuum(Ranking))
    /\ Sound(26, Insert("tarifas_colectivo", {"tarifas_colectivo"}))
<1>1. Sound(15, CrearViajesRaw)
  <2>1. /\ CrearViajesRaw.fills = {} /\ CrearViajesRaw.creates = {"viajes_raw"}
        /\ CrearViajesRaw.replaces = {} /\ CrearViajesRaw.empties = {}
    BY DEF CrearViajesRaw, Nothing
  <2>2. FilledAt("viajes_raw") >= 15 /\ \A t : FilledAt(t) # 15
    BY PlacesFilled
  <2>q. QED
    BY <2>1, <2>2, FillsNone
<1>2. Sound(16, Copy("viajes_raw"))
  <2>1. \A t : FilledAt(t) = 16 <=> t = "viajes_raw"
    BY PlacesFilled
  <2>q. QED
    BY <2>1, CopySound
<1>3. /\ Sound(17, Vacuum("viajes_raw")) /\ Sound(19, Vacuum("viajes"))
      /\ Sound(23, Vacuum("combinaciones_od")) /\ Sound(25, Vacuum(Ranking))
  <2>1. \A t : FilledAt(t) # 17 /\ FilledAt(t) # 19 /\ FilledAt(t) # 23 /\ FilledAt(t) # 25
    BY PlacesFilled
  <2>q. QED
    BY <2>1, VacuumSound
<1>4. Sound(18, Insert("viajes", {"viajes_raw"}))
  <2>1. (\A t : FilledAt(t) = 18 <=> t = "viajes") /\ FilledAt("viajes_raw") < 18
    BY PlacesFilled
  <2>2. ComeFrom(18, "viajes", {"viajes_raw"})
    BY <2>1 DEF ComeFrom
  <2>q. QED
    BY <2>1, <2>2, InsertSound
<1>5. Sound(20, Insert("hexagonos_viajes", {"viajes"}))
  <2>1. (\A t : FilledAt(t) = 20 <=> t = "hexagonos_viajes") /\ FilledAt("viajes") < 20
    BY PlacesFilled
  <2>2. ComeFrom(20, "hexagonos_viajes", {"viajes"})
    BY <2>1 DEF ComeFrom
  <2>q. QED
    BY <2>1, <2>2, InsertSound
<1>6. Sound(21, Insert("matriz_origen_destino", {"viajes", "hexagonos_viajes"})) /\ Sound(22, RebuildOD)
  <2>1. /\ \A t : FilledAt(t) = 21 <=> t = "matriz_origen_destino"
        /\ \A t : FilledAt(t) = 22 <=> t = "combinaciones_od"
        /\ FilledAt("viajes") < 21 /\ FilledAt("hexagonos_viajes") < 21
    BY PlacesFilled
  <2>2. /\ ComeFrom(21, "matriz_origen_destino", {"viajes", "hexagonos_viajes"})
        /\ ComeFrom(22, "combinaciones_od", {"viajes", "hexagonos_viajes"})
    BY <2>1, PlacesFilled DEF ComeFrom
  <2>q. QED
    BY <2>1, <2>2, InsertSound DEF RebuildOD
<1>7. Sound(24, RebuildRanking)
  <2> DEFINE sources == {"recorridos", "conexiones_recorridos", "combinaciones_od"}
  <2>1. /\ RebuildRanking.fills = {"combinaciones_lineas"} \X sources /\ sources # {}
        /\ "combinaciones_lineas" \in RebuildRanking.needs
        /\ RebuildRanking.empties = {"combinaciones_lineas"}
        /\ RebuildRanking.creates = {} /\ RebuildRanking.replaces = {}
    BY DEF RebuildRanking, Rebuild, Nothing, Ranking
  <2>2. /\ FilledAt("recorridos") < 24 /\ FilledAt("conexiones_recorridos") < 24 /\ FilledAt("combinaciones_od") < 24
        /\ FilledAt("combinaciones_lineas") >= 24
    BY PlacesFilled
  <2>3. \A t : FilledAt(t) = 24 <=> t = "combinaciones_lineas"
    BY PlacesFilled
  <2>4. ClearsNone(24, RebuildRanking)
    BY <2>1, <2>2 DEF ClearsNone
  <2>5. ComeFrom(24, "combinaciones_lineas", sources)
    BY <2>2 DEF ComeFrom
  <2> HIDE DEF sources
  <2>q. QED
    BY <2>1, <2>3, <2>4, <2>5, FillsFrom
<1>8. Sound(26, Insert("tarifas_colectivo", {"tarifas_colectivo"}))
  <2>1. \A t : FilledAt(t) = 26 <=> t = "tarifas_colectivo"
    BY PlacesFilled
  <2>2. ComeFrom(26, "tarifas_colectivo", {"tarifas_colectivo"})
    BY DEF ComeFrom
  <2>q. QED
    BY <2>1, <2>2, InsertSound
<1>q. QED
  BY <1>1, <1>2, <1>3, <1>4, <1>5, <1>6, <1>7, <1>8

\* Every command of a whole load is sound at its place.
LEMMA StepsSound ==
    ASSUME NEW k \in 1..26
    PROVE  Sound(k, steps[k])
<1>1. steps[k] = AllSteps[k]
  BY StepsListed
<1>2. /\ k \in 1..7 => Sound(k, AllSteps[k])
  BY StreetsSound DEF AllSteps
<1>3. k \in 8..14 => Sound(k, AllSteps[k])
  BY GTFSSound DEF AllSteps
<1>4. k \in 15..26 => Sound(k, AllSteps[k])
  BY TripsSound DEF AllSteps
<1>q. QED
  BY <1>1, <1>2, <1>3, <1>4

\* A command that commits at its place, with the tables before it filled by its
\* load and by no other: the table of its place is so too.
LEMMA WholeStep ==
    ASSUME NEW l \in Loads, NEW k \in 1..26, NEW c, Sound(k, c), Commits(l, c), WholeLoad(l), pc[l] = k
    PROVE  /\ \A t \in DOMAIN tables' \ {"capturas_colectivos"} : tables'[t] \subseteq {l}
           /\ \A t : FilledAt(t) <= k => t \in DOMAIN tables' /\ tables'[t] = {l}
<1>0. FilledAt("capturas_colectivos") = 27 /\ \A t : FilledAt(t) \in Nat
  BY PlacesFilled DEF FilledAt
<1>1. ASSUME NEW t, FilledAt(t) # k
      PROVE  After(l, c, t) = IF t \in c.creates \cup c.replaces \cup c.empties THEN {} ELSE tables[t]
  <2>1. \A q \in c.fills : q[1] # t
    BY <1>1 DEF Sound
  <2>q. QED
    BY <2>1, AfterReads
<1>2. ASSUME NEW t, FilledAt(t) = k
      PROVE  /\ t \in DOMAIN tables' /\ t # "capturas_colectivos"
             /\ After(l, c, t) = {l}
  <2> DEFINE kept == IF t \in c.creates \cup c.replaces \cup c.empties THEN {} ELSE tables[t]
             sources == SourcesOf(c, t)
  <2>1. t \in c.needs \cup c.creates \cup c.replaces /\ t # "capturas_colectivos"
    BY <1>0, <1>2 DEF Sound
  <2>2. t \in DOMAIN tables \cup c.creates \cup c.replaces
    BY <2>1 DEF Commits
  <2>3. kept \subseteq {l}
    BY <2>1, <2>2 DEF WholeLoad
  <2>4. sources = {t} => After(l, c, t) = kept \cup {l}
    BY DEF After
  <2>5. ASSUME \A s \in sources : s # t /\ FilledAt(s) < k, sources # {}
        PROVE  After(l, c, t) = kept \cup {l}
    <3>1. \A s \in sources : tables[s] = {l}
      BY <2>5 DEF WholeLoad
    <3>2. Joined(sources) = {l}
      BY <2>5, <3>1 DEF Joined
    <3>3. sources # {t}
      BY <2>5
    <3>q. QED
      BY <2>5, <3>2, <3>3 DEF After
  <2>6. sources # {} /\ (sources = {t} \/ \A s \in sources : s # t /\ FilledAt(s) < k)
    BY <1>2 DEF Sound
  <2>q. QED
    BY <2>1, <2>2, <2>3, <2>4, <2>5, <2>6 DEF Commits
<1>3. \A t \in DOMAIN tables' : tables'[t] = After(l, c, t)
  BY DEF Commits
<1>4. ASSUME NEW t \in DOMAIN tables' \ {"capturas_colectivos"} PROVE tables'[t] \subseteq {l}
  <2>1. CASE FilledAt(t) = k
    BY <1>2, <1>3, <2>1
  <2>2. CASE FilledAt(t) # k
    <3>1. t \in DOMAIN tables \/ t \in c.creates \cup c.replaces
      BY DEF Commits
    <3>q. QED
      BY <1>1, <1>3, <2>2, <3>1 DEF WholeLoad
  <2>q. QED
    BY <2>1, <2>2
<1>5. ASSUME NEW t, FilledAt(t) <= k PROVE t \in DOMAIN tables' /\ tables'[t] = {l}
  <2>1. CASE FilledAt(t) = k
    BY <1>2, <1>3, <2>1
  <2>2. CASE FilledAt(t) # k
    <3>1. FilledAt(t) < k
      BY <1>0, <1>5, <2>2
    <3>2. t \notin c.creates \cup c.replaces \cup c.empties
      BY <1>0, <3>1 DEF Sound
    <3>3. t \in DOMAIN tables /\ tables[t] = {l}
      BY <3>1 DEF WholeLoad
    <3>4. t \in DOMAIN tables'
      BY <3>3 DEF Commits
    <3>q. QED
      BY <1>1, <1>3, <2>2, <3>2, <3>3, <3>4
  <2>q. QED
    BY <2>1, <2>2
<1>q. QED
  BY <1>4, <1>5

\* What a load's own commit makes of it: it goes on as it should, or it ends with
\* every table written.
Ended(l) ==
    phase'[l] = "done" /\ l \notin disturbed => \A t \in Written(l) : tables'[t] = {l}

LEMMA OwnStep ==
    ASSUME SuccessInv, ProgressInv, WaitTypeOK, NEW l \in Loads, RunScript(l)
    PROVE  Undisturbed(l)' /\ Ended(l)
<1> DEFINE c == Pipeline(l)[pc[l]]
           Go == Accepted(l, c)
<1>1. phase[l] = "loading" /\ kind' = kind
  BY DEF RunScript, options
<1>2. /\ Go => /\ tables' = [t \in DOMAIN tables \cup c.creates \cup c.replaces |-> After(l, c, t)]
               /\ IF pc[l] = Len(Pipeline(l))
                  THEN phase' = [phase EXCEPT ![l] = "done"] /\ UNCHANGED pc
                  ELSE pc' = [pc EXCEPT ![l] = @ + 1] /\ UNCHANGED phase
               /\ IF tables' = tables THEN UNCHANGED disturbed ELSE ChangedBy(l)
      /\ ~Go => phase' = [phase EXCEPT ![l] = "failed"]
  BY Zenon DEF RunScript
<1>3. Undisturbed(l) /\ pc[l] \in 1..Len(Pipeline(l)) /\ pc[l] \in Nat
  BY DEF SuccessInv, ProgressInv
<1>4. DOMAIN phase = Loads /\ DOMAIN pc = Loads
  BY DEF WaitTypeOK, ProgressInv
<1>5. Go => c.needs \subseteq DOMAIN tables
  BY DEF Accepted
<1> HIDE DEF c, Go
<1>6. CASE ~Go
  BY <1>2, <1>4, <1>6 DEF Undisturbed, Ended
<1>7. CASE Go /\ l \in disturbed
  <2>1. l \in disturbed'
    BY <1>2, <1>7 DEF ChangedBy
  <2>q. QED
    BY <1>7, <2>1 DEF Undisturbed, Ended
<1>8. CASE Go /\ l \notin disturbed /\ kind[l] = "reload"
  <2>1. Flows \in DOMAIN tables /\ pc[l] <= 8 /\ Zones \notin DOMAIN tables
    BY <1>1, <1>3, <1>8 DEF Undisturbed, PartialLoad, SuccessInv
  <2>2. Pipeline(l) = ReloadSteps /\ Len(Pipeline(l)) = 9
    BY <1>8, ReloadListed DEF Pipeline
  <2>3. pc[l] # 8
    <3>1. Zones \in RebuildRanking.needs
      BY DEF RebuildRanking, Rebuild, Nothing
    <3>2. pc[l] = 8 => c = RebuildRanking
      BY <2>2, ReloadListed DEF c
    <3>q. QED
      BY <1>5, <1>8, <2>1, <3>1, <3>2
  <2>4. phase' = phase /\ pc'[l] = pc[l] + 1
    BY <1>2, <1>3, <1>4, <1>8, <2>1, <2>2
  <2>5. Flows \in DOMAIN tables'
    BY <1>2, <1>8, <2>1
  <2>6. pc'[l] <= 8
    BY <1>3, <2>1, <2>3, <2>4
  <2>q. QED
    BY <1>1, <1>8, <2>4, <2>5, <2>6 DEF Undisturbed, PartialLoad, Ended
<1>9. CASE Go /\ l \notin disturbed /\ kind[l] # "reload"
  <2>1. Pipeline(l) = steps /\ Len(Pipeline(l)) = 26
    BY <1>9, StepsListed DEF Pipeline
  <2>2. pc[l] \in 1..26 /\ Sound(pc[l], c)
    BY <1>3, <2>1, StepsSound DEF c
  <2>3. WholeLoad(l)
    BY <1>1, <1>3, <1>9 DEF Undisturbed
  <2>4. Commits(l, c)
    BY <1>2, <1>5, <1>9 DEF Commits
  <2>5. /\ \A t \in DOMAIN tables' \ {"capturas_colectivos"} : tables'[t] \subseteq {l}
        /\ \A t : FilledAt(t) <= pc[l] => t \in DOMAIN tables' /\ tables'[t] = {l}
    BY <2>2, <2>3, <2>4, WholeStep
  <2>6. CASE pc[l] # 26
    <3>1. phase' = phase /\ pc'[l] = pc[l] + 1
      BY <1>2, <1>4, <1>9, <2>1, <2>6
    <3>2. \A t : FilledAt(t) < pc'[l] => FilledAt(t) <= pc[l]
      <4>1. \A t : FilledAt(t) \in Nat
        BY PlacesFilled
      <4>q. QED
        BY <1>3, <3>1, <4>1
    <3>q. QED
      BY <1>1, <1>9, <2>5, <3>1, <3>2 DEF Undisturbed, WholeLoad, Ended
  <2>7. CASE pc[l] = 26
    <3>1. phase'[l] = "done"
      BY <1>2, <1>4, <1>9, <2>1, <2>7
    <3>2. \A t \in Written(l) : FilledAt(t) <= 26
      BY <1>9 DEF Written, Finals, Network, Catalogue, Ranking, Trips, Zones, FilledAt
    <3>q. QED
      BY <2>5, <2>7, <3>1, <3>2 DEF Undisturbed, Ended
  <2>q. QED
    BY <2>6, <2>7
<1>q. QED
  BY <1>6, <1>7, <1>8, <1>9

LEMMA SuccessInit == Init => SuccessInv
<1> SUFFICES ASSUME Init PROVE SuccessInv
  OBVIOUS
<1>1. schema \in BOOLEAN /\ (~schema => DOMAIN tables = {})
  <2>1. DOMAIN << >> = {}
    OBVIOUS
  <2>q. QED
    BY <2>1 DEF Init
<1>2. Flows \in DOMAIN tables => Zones \notin DOMAIN tables /\ "recorridos" \in DOMAIN tables
  BY DEF Init, Complete, Finals, Flows, Zones, Files, Staging, gtfsFiles, Catalogue
<1>3. \A l \in Loads : phase[l] = "idle"
  BY DEF Init
<1>q. QED
  BY <1>1, <1>2, <1>3 DEF SuccessInv, Undisturbed

\* No command creates the flows, and only the description of the tables, in a
\* schema without them, the zones.
LEMMA ZonesCreated ==
    ASSUME NEW c \in Commands
    PROVE  /\ Flows \notin c.creates \cup c.replaces
           /\ Zones \in c.creates \cup c.replaces => "recorridos" \in c.creates
<1>1. \A f : Copy(f).creates \cup Copy(f).replaces = {}
  BY DEF Copy, Nothing
<1>2. \A t : Vacuum(t).creates \cup Vacuum(t).replaces = {}
  BY DEF Vacuum, Nothing
<1>3. \A t, sources : Insert(t, sources).creates \cup Insert(t, sources).replaces = {}
  BY DEF Insert, Nothing
<1>4. /\ InitDB.creates \cup InitDB.replaces = {}
      /\ TransformarCalles.creates \cup TransformarCalles.replaces = {}
      /\ copyStreetRestrictions.creates \cup copyStreetRestrictions.replaces = {}
      /\ TransformarRestricciones.creates \cup TransformarRestricciones.replaces = {}
      /\ TransformarGTFS.creates \cup TransformarGTFS.replaces = {}
      /\ RebuildTransfers.creates \cup RebuildTransfers.replaces = {}
      /\ RebuildRanking.creates \cup RebuildRanking.replaces = {}
      /\ RebuildOD.creates \cup RebuildOD.replaces = {}
  BY DEF InitDB, TransformarCalles, copyStreetRestrictions, TransformarRestricciones, TransformarGTFS,
         RebuildTransfers, RebuildRanking, RebuildOD, Rebuild, Nothing
<1>5. /\ ImportStreets.creates \cup ImportStreets.replaces = {"calles_raw"}
      /\ CrearRestriccionesRaw.creates \cup CrearRestriccionesRaw.replaces = {"calles_restricciones_raw"}
      /\ CrearGTFSRaw.creates \cup CrearGTFSRaw.replaces = {"gtfs_trips_raw", "gtfs_stop_times_raw"}
      /\ CrearViajesRaw.creates \cup CrearViajesRaw.replaces = {"viajes_raw"}
  BY DEF ImportStreets, CrearRestriccionesRaw, CrearGTFSRaw, CrearViajesRaw, Nothing, Staging, gtfsFiles
<1>6. DDL.creates = Finals /\ DDL.replaces = {}
  BY DEF DDL, Nothing
<1>7. "recorridos" \in Finals /\ Flows \notin Finals
  BY DEF Finals, Catalogue, Network, Ranking, Trips, Zones, Flows
<1>8. c = DDL \/ c.creates \cup c.replaces = {} \/ c \in {ImportStreets, CrearRestriccionesRaw, CrearGTFSRaw, CrearViajesRaw}
  BY <1>1, <1>2, <1>3, <1>4 DEF Commands
<1>q. QED
  BY <1>5, <1>6, <1>7, <1>8 DEF Flows, Zones

\* A step that leaves the tables and the places of the loads, or disturbs those
\* that are loading.
LEMMA OthersKept ==
    ASSUME NEW l \in Loads, Undisturbed(l), kind'[l] = kind[l], pc'[l] = pc[l],
           phase'[l] = "loading" => phase[l] = "loading",
           disturbed \subseteq disturbed',
           \/ tables' = tables
           \/ phase[l] = "loading" => l \in disturbed'
    PROVE  Undisturbed(l)'
BY DEF Undisturbed, WholeLoad, PartialLoad

\* The tables that exist follow the commands of the loads.
LEMMA DomainsStep ==
    ASSUME SuccessInv, ProgressInv, NEW l \in Loads, RunScript(l)
    PROVE  /\ schema' \in BOOLEAN
           /\ ~schema' => DOMAIN tables' = {}
           /\ Flows \in DOMAIN tables' => Zones \notin DOMAIN tables' /\ "recorridos" \in DOMAIN tables'
<1> DEFINE c == Pipeline(l)[pc[l]]
<1>1. c \in Commands
  BY NextCommand
<1>2. \/ UNCHANGED <<schema, tables>>
      \/ /\ Accepted(l, c) /\ schema' = TRUE
         /\ tables' = [t \in DOMAIN tables \cup c.creates \cup c.replaces |-> After(l, c, t)]
  BY Zenon DEF RunScript
<1> HIDE DEF c
<1>3. Accepted(l, c) => c.creates \cap DOMAIN tables = {}
  BY DEF Accepted
<1>4. CASE UNCHANGED <<schema, tables>>
  BY <1>4 DEF SuccessInv
<1>5. CASE /\ Accepted(l, c) /\ schema' = TRUE
           /\ tables' = [t \in DOMAIN tables \cup c.creates \cup c.replaces |-> After(l, c, t)]
  <2>1. DOMAIN tables' = DOMAIN tables \cup c.creates \cup c.replaces
    BY <1>5
  <2>q. QED
    BY <1>1, <1>3, <1>5, <2>1, ZonesCreated DEF SuccessInv
<1>q. QED
  BY <1>2, <1>4, <1>5

\* Every step keeps the invariant, and a load that ends in it has written all.
LEMMA SuccessStep ==
    ASSUME WaitInv, ProgressInv, SuccessInv, [Next]_vars
    PROVE  /\ SuccessInv'
           /\ \A l \in Loads : phase[l] # "done" => Ended(l)
<1>0. WaitTypeOK /\ phase \in [Loads -> Phases] /\ DOMAIN phase = Loads /\ pc \in [Loads -> Nat] /\ kind \in [Loads -> Kinds]
  BY DEF WaitInv, WaitTypeOK, ProgressInv
<1>1. ASSUME NEW l \in Loads, Start(l) \/ WaitForDatabase(l) \/ Check(l) \/ Fail(l)
      PROVE  /\ SuccessInv'
             /\ \A m \in Loads : phase[m] # "done" => Ended(m)
  <2>1. /\ UNCHANGED <<schema, tables, pc, disturbed>>
        /\ \A m \in Loads \ {l} : phase'[m] = phase[m] /\ kind'[m] = kind[m]
    BY <1>0, <1>1, Zenon DEF Start, WaitForDatabase, Connected, WaitAgain, Check, Fail, options
  <2>2. ASSUME phase'[l] = "loading" PROVE Undisturbed(l)'
    <3>1. Check(l)
      BY <1>0, <1>1, <2>2 DEF Start, WaitForDatabase, Connected, WaitAgain, Fail
    <3>2. phase[l] = "checking" /\ kind' = kind
      BY <3>1 DEF Check, options
    <3>3. pc[l] = 1
      BY <3>2 DEF SuccessInv
    <3>4. IF kind[l] = "reload" THEN Flows \in DOMAIN tables ELSE ~schema
      BY <1>0, <2>2, <3>1 DEF Check, checkGTFSReloadSchema, resolveExistingSchema
    <3>5. kind[l] = "reload" => PartialLoad(l)'
      BY <2>1, <3>3, <3>4 DEF PartialLoad
    <3>6. kind[l] # "reload" => WholeLoad(l)'
      <4>1. \A t : FilledAt(t) \in 3..27
        BY PlacesFilled
      <4>2. ASSUME kind[l] # "reload" PROVE DOMAIN tables' = {} /\ pc'[l] = 1
        BY <2>1, <3>3, <3>4, <4>2 DEF SuccessInv
      <4>3. \A n \in 3..27 : ~(n < 1)
        OBVIOUS
      <4>4. \A t : ~(FilledAt(t) < 1)
        BY <4>1, <4>3, Zenon
      <4>q. QED
        BY <4>2, <4>4, Zenon DEF WholeLoad
    <3>q. QED
      BY <3>2, <3>5, <3>6 DEF Undisturbed
  <2>3. phase'[l] # "done"
    BY <1>0, <1>1, Zenon DEF Start, WaitForDatabase, Connected, WaitAgain, Check, Fail, resolveExistingSchema
  <2>4. ASSUME NEW m \in Loads PROVE Undisturbed(m)'
    <3>1. CASE m = l
      BY <2>2, <3>1 DEF Undisturbed
    <3>2. CASE m # l
      BY <2>1, <3>2, OthersKept DEF SuccessInv
    <3>q. QED
      BY <3>1, <3>2
  <2>5. ASSUME NEW m \in Loads, phase'[m] \in {"connecting", "checking", "dropping"} PROVE pc'[m] = 1
    <3>1. CASE m = l
      <4>1. phase[l] \in {"idle", "connecting", "checking"} \/ Fail(l)
        BY <1>1 DEF Start, WaitForDatabase, Check
      <4>2. ~Fail(l)
        BY <1>0, <2>5, <3>1 DEF Fail
      <4>q. QED
        BY <2>1, <3>1, <4>1, <4>2 DEF SuccessInv, ProgressInv
    <3>2. CASE m # l
      BY <2>1, <2>5, <3>2 DEF SuccessInv
    <3>q. QED
      BY <3>1, <3>2
  <2>6. ASSUME NEW m \in Loads, phase'[m] = "dropping" PROVE kind'[m] = "reset"
    <3>1. CASE m = l
      <4>1. Check(l)
        BY <1>0, <1>1, <2>6, <3>1 DEF Start, WaitForDatabase, Connected, WaitAgain, Fail
      <4>2. kind[l] = "reset" /\ kind' = kind
        BY <1>0, <2>6, <3>1, <4>1 DEF Check, resolveExistingSchema, options
      <4>q. QED
        BY <3>1, <4>2
    <3>2. CASE m # l
      BY <2>1, <2>6, <3>2 DEF SuccessInv
    <3>q. QED
      BY <3>1, <3>2
  <2>7. \A m \in Loads : phase[m] # "done" => phase'[m] # "done"
    BY <2>1, <2>3
  <2>q. QED
    BY <2>1, <2>4, <2>5, <2>6, <2>7 DEF SuccessInv, Ended
<1>2. ASSUME NEW l \in Loads, DropSchema(l)
      PROVE  /\ SuccessInv'
             /\ \A m \in Loads : phase[m] # "done" => Ended(m)
  <2>1. /\ schema' = FALSE /\ tables' = <<>> /\ kind' = kind /\ pc' = pc
        /\ phase[l] = "dropping" /\ phase' = [phase EXCEPT ![l] = IF schema THEN "loading" ELSE "failed"]
        /\ disturbed' = disturbed \cup {k \in Loads \ {l} : Active(k)}
    BY <1>2 DEF DropSchema, ChangedBy, options
  <2>2. DOMAIN tables' = {} /\ pc[l] = 1
    BY <2>1 DEF SuccessInv
  <2>3. /\ \A m \in Loads \ {l} : phase'[m] = phase[m]
        /\ phase'[l] = IF schema THEN "loading" ELSE "failed"
    BY <1>0, <2>1
  <2>4. Undisturbed(l)'
    <3>1. WholeLoad(l)'
      <4>1. \A t : FilledAt(t) \in 3..27
        BY PlacesFilled
      <4>q. QED
        BY <2>1, <2>2, <4>1 DEF WholeLoad
    <3>2. kind[l] = "reset"
      BY <2>1 DEF SuccessInv
    <3>q. QED
      BY <2>1, <3>1, <3>2 DEF Undisturbed
  <2>5. ASSUME NEW m \in Loads, m # l PROVE Undisturbed(m)'
    <3>1. phase[m] = "loading" => m \in disturbed'
      BY <2>1, <2>5 DEF Active
    <3>2. disturbed \subseteq disturbed' /\ kind'[m] = kind[m] /\ pc'[m] = pc[m] /\ phase'[m] = phase[m]
      BY <2>1, <2>3, <2>5
    <3>q. QED
      BY <3>1, <3>2, OthersKept DEF SuccessInv
  <2>6. \A m \in Loads : phase[m] # "done" => phase'[m] # "done"
    BY <2>3
  <2>7. \A m \in Loads : phase'[m] \in {"connecting", "checking", "dropping"} => pc'[m] = 1
    BY <2>1, <2>3 DEF SuccessInv
  <2>8. \A m \in Loads : phase'[m] = "dropping" => kind'[m] = "reset"
    BY <2>1, <2>3 DEF SuccessInv
  <2>q. QED
    BY <2>1, <2>2, <2>4, <2>5, <2>6, <2>7, <2>8 DEF SuccessInv, Ended
<1>3. ASSUME NEW l \in Loads, RunScript(l)
      PROVE  /\ SuccessInv'
             /\ \A m \in Loads : phase[m] # "done" => Ended(m)
  <2>1. /\ kind' = kind /\ phase[l] = "loading"
        /\ \A m \in Loads \ {l} : phase'[m] = phase[m] /\ pc'[m] = pc[m]
        /\ phase'[l] \in {"loading", "done", "failed"}
    BY <1>0, <1>3 DEF RunScript, options
  <2>2. (tables' = tables /\ disturbed' = disturbed) \/ ChangedBy(l)
    <3>1. CASE Accepted(l, Pipeline(l)[pc[l]])
      BY <1>3, <3>1, Zenon DEF RunScript
    <3>2. CASE ~Accepted(l, Pipeline(l)[pc[l]])
      BY <1>3, <3>2, Zenon DEF RunScript
    <3>q. QED
      BY <3>1, <3>2
  <2>3. Undisturbed(l)' /\ Ended(l)
    BY <1>0, <1>3, OwnStep
  <2>4. ASSUME NEW m \in Loads, m # l PROVE Undisturbed(m)'
    <3>1. \/ tables' = tables
          \/ phase[m] = "loading" => m \in disturbed'
      BY <2>2, <2>4 DEF ChangedBy, Active
    <3>2. disturbed \subseteq disturbed'
      BY <2>2 DEF ChangedBy
    <3>3. kind'[m] = kind[m] /\ pc'[m] = pc[m] /\ phase'[m] = phase[m]
      BY <2>1, <2>4
    <3>q. QED
      BY <3>1, <3>2, <3>3, OthersKept DEF SuccessInv
  <2>5. \A m \in Loads : phase[m] # "done" => Ended(m)
    BY <2>1, <2>3 DEF Ended
  <2>6. /\ \A m \in Loads : phase'[m] \in {"connecting", "checking", "dropping"} => pc'[m] = 1
        /\ \A m \in Loads : phase'[m] = "dropping" => kind'[m] = "reset"
    BY <2>1 DEF SuccessInv
  <2>7. /\ schema' \in BOOLEAN
        /\ ~schema' => DOMAIN tables' = {}
        /\ Flows \in DOMAIN tables' => Zones \notin DOMAIN tables' /\ "recorridos" \in DOMAIN tables'
    BY <1>3, DomainsStep
  <2>q. QED
    BY <2>3, <2>4, <2>5, <2>6, <2>7 DEF SuccessInv
<1>4. ASSUME Migrate
      PROVE  /\ SuccessInv'
             /\ \A m \in Loads : phase[m] # "done" => Ended(m)
  <2>1. /\ UNCHANGED <<schema, kind, phase, pc>>
        /\ Flows \in DOMAIN tables /\ DOMAIN tables' = (DOMAIN tables \ {Flows}) \cup {Zones}
        /\ disturbed' = disturbed \cup {l \in Loads : Active(l)}
    BY <1>4 DEF Migrate, options
  <2>2. schema /\ Flows \notin DOMAIN tables'
    BY <2>1 DEF SuccessInv, Flows, Zones
  <2>3. ASSUME NEW m \in Loads PROVE Undisturbed(m)'
    <3>1. phase[m] = "loading" => m \in disturbed'
      BY <2>1 DEF Active
    <3>q. QED
      BY <2>1, <3>1, OthersKept DEF SuccessInv
  <2>q. QED
    BY <2>1, <2>2, <2>3 DEF SuccessInv, Ended
<1>5. ASSUME StoreCapture
      PROVE  /\ SuccessInv'
             /\ \A m \in Loads : phase[m] # "done" => Ended(m)
  <2>1. /\ UNCHANGED <<schema, kind, phase, pc, disturbed>>
        /\ tables' = [tables EXCEPT !["capturas_colectivos"] = {"worker"}]
        /\ "capturas_colectivos" \in DOMAIN tables
    BY <1>5 DEF StoreCapture, options
  <2>2. DOMAIN tables' = DOMAIN tables /\ \A t \in DOMAIN tables \ {"capturas_colectivos"} : tables'[t] = tables[t]
    BY <2>1
  <2>3. ASSUME NEW m \in Loads PROVE Undisturbed(m)'
    <3>1. PartialLoad(m) => PartialLoad(m)'
      BY <2>1, <2>2 DEF PartialLoad
    <3>2. ASSUME WholeLoad(m), phase[m] = "loading", kind[m] # "reload" PROVE WholeLoad(m)'
      <4>1. pc[m] <= 26
        <5>1. Pipeline(m) = steps
          BY <3>2, Zenon DEF Pipeline
        <5>2. Len(Pipeline(m)) = 26
          BY <5>1, StepsListed, Zenon
        <5>3. pc[m] \in 1..Len(Pipeline(m))
          BY Zenon DEF ProgressInv
        <5>q. QED
          BY <5>2, <5>3
      <4>2. \A t : FilledAt(t) < pc[m] => t # "capturas_colectivos"
        <5>1. FilledAt("capturas_colectivos") = 27 /\ pc[m] \in Nat
          BY <1>0 DEF FilledAt
        <5>q. QED
          BY <4>1, <5>1
      <4>q. QED
        BY <2>1, <2>2, <3>2, <4>2 DEF WholeLoad
    <3>q. QED
      BY <2>1, <3>1, <3>2 DEF Undisturbed, SuccessInv
  <2>q. QED
    BY <2>1, <2>2, <2>3 DEF SuccessInv, Ended
<1>6. ASSUME UNCHANGED vars
      PROVE  /\ SuccessInv'
             /\ \A m \in Loads : phase[m] # "done" => Ended(m)
  BY <1>6, OthersKept DEF vars, SuccessInv, Ended
<1>q. QED
  BY <1>1, <1>2, <1>3, <1>4, <1>5, <1>6 DEF Next

\* A load that says it ended, and during which no other one changed the tables,
\* wrote them all, each from its own files alone, whatever failed before it and
\* in whatever place other loads stand: a whole load begins in an empty schema,
\* every command fills the table of its place from files or from tables that the
\* commands before it filled, and none clears them again.
THEOREM SuccessIsComplete == Spec => SuccessMeansComplete
<1>1. Init => WaitInv /\ TablesInv /\ ProgressInv /\ SuccessInv
  BY WaitInit, FollowInit, SuccessInit
<1>2. (WaitInv /\ TablesInv /\ ProgressInv /\ SuccessInv) /\ [Next]_vars
        => (WaitInv /\ TablesInv /\ ProgressInv /\ SuccessInv)'
  BY WaitStep, FollowStep, SuccessStep
<1>3. (WaitInv /\ TablesInv /\ ProgressInv /\ SuccessInv) /\ [Next]_vars
        => [\A l \in Loads :
              phase[l] # "done" /\ phase'[l] = "done" /\ l \notin disturbed =>
                  \A t \in Written(l) : tables'[t] = {l}]_vars
  BY SuccessStep DEF Ended
<1>q. QED
  BY <1>1, <1>2, <1>3, PTL DEF Spec, SuccessMeansComplete
=============================================================================
