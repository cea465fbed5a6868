---------------------------- MODULE DatabaseLoad ----------------------------
(***************************************************************************)
(* cmd/initdb and cmd/reload-gtfs: the loaders of internal/database/       *)
(* bootstrap, which build the schema vialis or replace its GTFS model.     *)
(*                                                                         *)
(* A loader sends its scripts as command strings, each of which commits or *)
(* leaves nothing, over a session that nothing excludes other loaders from *)
(* sharing the schema with.  It may fail between any two of them, and is   *)
(* then run again by hand.  A table is abstracted to the loads its rows    *)
(* come from; "missing" is not to be in the domain of tables.              *)
(***************************************************************************)
EXTENDS Integers, Sequences, FiniteSets

CONSTANTS
    Loads,          \* runs of a loader
    Defects,        \* what may be wrong with the files of a run
    WaitBudget,
    RetryInterval,
    MaximumReady    \* bound on the moment the database answers

ASSUME WaitAssumption == WaitBudget \in Nat /\ RetryInterval \in Nat \ {0} /\ MaximumReady \in Nat

Kinds == {"init", "reset", "reload"}

(* A file of the staging with unique indexes, and one without.              *)
gtfsFiles == <<"gtfs_trips_raw", "gtfs_stop_times_raw">>

Staging == {gtfsFiles[i] : i \in 1..Len(gtfsFiles)}

(* The trip survey, and the OpenStreetMap extract.                          *)
Files == Staging \cup {"viajes_raw", "calles_raw"}

FileStates == {"good", "missing", "bad header", "bad row"}

ASSUME DefectsAssumption == Defects \subseteq [Files -> FileStates]

VARIABLES
    schema,     \* the schema vialis exists
    tables,     \* the loads in each of its tables
    kind, files, \* the options of a run
    phase,      \* where it stands
    pc,         \* the command string it sends next
    waited, ready, \* of the wait for the database
    disturbed   \* history: runs during which another one changed the tables

vars == <<schema, tables, kind, files, phase, pc, waited, ready, disturbed>>
options == <<kind, files, ready>>

-----------------------------------------------------------------------------
(* The command strings.  "fills" has pairs of a table and one of those its  *)
(* rows come from: a join, empty when one of them is; a table that comes    *)
(* from itself is read from a file or from the script.                      *)

Nothing == [needs |-> {}, creates |-> {}, replaces |-> {}, empties |-> {}, fills |-> {}]

\* The columns of the dominant zones, of combinaciones_lineas, and the table
\* combinaciones_lineas_flujos that they replace.
Zones == "zones"
Flows == "flujos"

Network == {"calles", "calles_restricciones"}
Catalogue == {"recorridos", "conexiones_recorridos"}
Ranking == "combinaciones_lineas"
Trips == {"viajes", "hexagonos_viajes", "matriz_origen_destino", "combinaciones_od", "tarifas_colectivo"}
Finals == Network \cup Catalogue \cup {Ranking} \cup Trips \cup {"capturas_colectivos", Zones}

InitDB == Nothing

DDL == [Nothing EXCEPT !.creates = Finals]

ImportStreets == [Nothing EXCEPT !.replaces = {"calles_raw"}, !.fills = {<<"calles_raw", "calles_raw">>}]

TransformarCalles ==
    [Nothing EXCEPT !.needs = {"calles_raw"} \cup Network, !.empties = Network, !.fills = {<<"calles", "calles_raw">>}]

CrearRestriccionesRaw == [Nothing EXCEPT !.replaces = {"calles_restricciones_raw"}]

\* A header or a row that is not what the table describes leaves it without any
\* row of the file.
Copy(file) == [Nothing EXCEPT !.needs = {file}, !.fills = {<<file, file>>}]

copyStreetRestrictions ==
    [Nothing EXCEPT !.needs = {"calles_restricciones_raw"}, !.fills = {<<"calles_restricciones_raw", "calles_restricciones_raw">>}]

TransformarRestricciones ==
    [Nothing EXCEPT !.needs = {"calles_restricciones_raw"} \cup Network, !.empties = {"calles_restricciones"},
                    !.fills = {"calles_restricciones"} \X {"calles_restricciones_raw", "calles"}]

importStreetRestrictions == <<CrearRestriccionesRaw, copyStreetRestrictions, TransformarRestricciones>>

importStreets == <<ImportStreets, TransformarCalles>> \o importStreetRestrictions

CrearGTFSRaw == [Nothing EXCEPT !.replaces = Staging]

\* Mutant: what is derived from the routes is left for the scripts that follow.
TransformarAlone ==
    [Nothing EXCEPT !.needs = Staging \cup Catalogue \cup {Ranking}, !.empties = Catalogue,
                    !.fills = {"recorridos"} \X Staging]

TransformarGTFS ==
    [Nothing EXCEPT !.needs = Staging \cup Catalogue \cup {Ranking},
                    !.empties = Catalogue \cup {Ranking}, !.fills = {"recorridos"} \X Staging]

Rebuild(table, sources) ==
    [Nothing EXCEPT !.needs = {table} \cup sources, !.empties = {table}, !.fills = {table} \X sources]

Insert(table, sources) == [Nothing EXCEPT !.needs = {table} \cup sources, !.fills = {table} \X sources]

\* A VACUUM is a command string of its own: its failure fails a step whose rows
\* are already there.
Vacuum(table) == [Nothing EXCEPT !.needs = {table}]

copyGTFS == [i \in 1..Len(gtfsFiles) |-> Copy(gtfsFiles[i])]
Conexiones == <<Rebuild("conexiones_recorridos", {"recorridos"}), Vacuum("conexiones_recorridos")>>
CombinacionesLineas ==
    <<[Rebuild(Ranking, {"recorridos", "conexiones_recorridos", "combinaciones_od"}) EXCEPT !.needs = @ \cup {Zones}],
      Vacuum(Ranking)>>
CrearViajesRaw == [Nothing EXCEPT !.creates = {"viajes_raw"}]

loadGTFS == <<CrearGTFSRaw>> \o copyGTFS \o <<TransformarGTFS, Vacuum("recorridos")>> \o Conexiones

\* Mutant: the ranking, which reads the O-D combinations, is built with the GTFS
\* tables, as the reload does.
stepsRankingEarly ==
    <<InitDB, DDL>> \o importStreets \o loadGTFS \o CombinacionesLineas
        \o <<CrearViajesRaw, Copy("viajes_raw"), Vacuum("viajes_raw"), Insert("viajes", {"viajes_raw"}), Vacuum("viajes"),
             Insert("hexagonos_viajes", {"viajes"}), Insert("matriz_origen_destino", {"viajes", "hexagonos_viajes"}),
             Rebuild("combinaciones_od", {"viajes", "hexagonos_viajes"}), Vacuum("combinaciones_od")>>
        \o <<Insert("tarifas_colectivo", {"tarifas_colectivo"})>>

steps ==
    <<InitDB, DDL>> \o importStreets \o loadGTFS
        \o <<CrearViajesRaw, Copy("viajes_raw"), Vacuum("viajes_raw"), Insert("viajes", {"viajes_raw"}), Vacuum("viajes"),
             Insert("hexagonos_viajes", {"viajes"}), Insert("matriz_origen_destino", {"viajes", "hexagonos_viajes"}),
             Rebuild("combinaciones_od", {"viajes", "hexagonos_viajes"}), Vacuum("combinaciones_od")>>
        \o CombinacionesLineas \o <<Insert("tarifas_colectivo", {"tarifas_colectivo"})>>

ReloadSteps == loadGTFS \o CombinacionesLineas

Pipeline(l) == IF kind[l] = "reload" THEN ReloadSteps ELSE steps

\* What the pipeline of a load that succeeds has written.
Written(l) ==
    IF kind[l] = "reload" THEN Catalogue \cup {Ranking} ELSE Finals \ {"capturas_colectivos", Zones}

-----------------------------------------------------------------------------
(* A database without the schema, or one of a release whose ranking kept    *)
(* its flows in a table of their own.                                       *)

Old == "old"

Complete == [t \in (Finals \ {Zones}) \cup {Flows} \cup Files |-> {Old}]

Init ==
    /\ \/ schema = FALSE /\ tables = <<>>
       \/ schema = TRUE /\ tables = Complete
    /\ kind = [l \in Loads |-> "init"]
    /\ files = [l \in Loads |-> [f \in Files |-> "good"]]
    /\ phase = [l \in Loads |-> "idle"]
    /\ pc = [l \in Loads |-> 1]
    /\ waited = [l \in Loads |-> 0] /\ ready = [l \in Loads |-> 0]
    /\ disturbed = {}

Active(l) == phase[l] \in {"checking", "dropping", "loading"}

\* Another load that is under way is disturbed.
ChangedBy(l) == disturbed' = disturbed \cup {k \in Loads \ {l} : Active(k)}

\* The operator runs a loader.
Start(l) ==
    /\ phase[l] = "idle"
    /\ \E k \in Kinds, f \in Defects, r \in 0..MaximumReady :
          /\ kind' = [kind EXCEPT ![l] = k]
          /\ files' = [files EXCEPT ![l] = f]
          /\ ready' = [ready EXCEPT ![l] = r]
    /\ phase' = [phase EXCEPT ![l] = "connecting"]
    /\ UNCHANGED <<schema, tables, pc, waited, disturbed>>

Connected(l) ==
    /\ phase' = [phase EXCEPT ![l] = "checking"]
    /\ waited' = [waited EXCEPT ![l] = 0]
    /\ ready' = [ready EXCEPT ![l] = 0]

\* Mutant: the deadline is looked at as if the pause were over.
WaitAgainWithoutPause(l, took) ==
    LET now == waited[l] + took IN
    IF now + RetryInterval >= WaitBudget
    THEN phase' = [phase EXCEPT ![l] = "gave up"] /\ waited' = [waited EXCEPT ![l] = now]
    ELSE waited' = [waited EXCEPT ![l] = now + RetryInterval] /\ UNCHANGED phase

WaitAgain(l, took) ==
    LET now == waited[l] + took IN
    IF now >= WaitBudget
    THEN phase' = [phase EXCEPT ![l] = "gave up"] /\ waited' = [waited EXCEPT ![l] = now]
    ELSE waited' = [waited EXCEPT ![l] = now + RetryInterval] /\ UNCHANGED phase

\* initdb tries until the budget runs out; reload-gtfs, once.
WaitForDatabase(l) ==
    /\ phase[l] = "connecting"
    /\ \/ waited[l] >= ready[l] /\ Connected(l)
       \/ /\ waited[l] < ready[l]
          /\ IF kind[l] = "reload"
             THEN phase' = [phase EXCEPT ![l] = "failed"] /\ UNCHANGED waited
             ELSE \E took \in 0..RetryInterval : WaitAgain(l, took)
          /\ UNCHANGED ready
    /\ UNCHANGED <<schema, tables, kind, files, pc, disturbed>>

checkHeader(l, file) == files[l][file] \in {"good", "bad row"}

\* A whole load only looks whether its files are there; a reload opens them and
\* reads their headers.
checkFiles(l) == \A file \in Files : files[l][file] # "missing"

checkGTFSFiles(l) == \A file \in Staging : checkHeader(l, file)

FilesReady(l) == IF kind[l] = "reload" THEN checkGTFSFiles(l) ELSE checkFiles(l)

\* The count of the columns of the segments' times and of the flows.
checkGTFSReloadSchema == {"recorridos", Flows} \subseteq DOMAIN tables

resolveExistingSchema(l) ==
    IF ~schema THEN "loading" ELSE IF kind[l] = "reset" THEN "dropping" ELSE "refused"

Check(l) ==
    /\ phase[l] = "checking"
    /\ phase' = [phase EXCEPT ![l] =
                    IF ~FilesReady(l) THEN "refused"
                    ELSE IF kind[l] = "reload" THEN IF checkGTFSReloadSchema THEN "loading" ELSE "refused"
                    ELSE resolveExistingSchema(l)]
    /\ UNCHANGED <<schema, tables, options, pc, waited, disturbed>>

\* Another loader may have dropped it meanwhile: there is no IF EXISTS.
DropSchema(l) ==
    /\ phase[l] = "dropping"
    /\ phase' = [phase EXCEPT ![l] = IF schema THEN "loading" ELSE "failed"]
    /\ schema' = FALSE
    /\ tables' = <<>>
    /\ ChangedBy(l)
    /\ UNCHANGED <<options, pc, waited>>

SourcesOf(c, t) == {p[2] : p \in {q \in c.fills : q[1] = t}}

Joined(sources) ==
    IF \E s \in sources : tables[s] = {} THEN {} ELSE UNION {tables[s] : s \in sources}

\* The rows of t after command string c of load l.
After(l, c, t) ==
    LET kept == IF t \in c.creates \cup c.replaces \cup c.empties THEN {} ELSE tables[t]
        sources == SourcesOf(c, t)
    IN  kept \cup (IF sources = {t} THEN {l} ELSE IF sources = {} THEN {} ELSE Joined(sources))

\* Two loads of one feed repeat its identifiers: the unique indexes refuse them.
Indexable(c) == c = TransformarGTFS => Cardinality(tables["gtfs_trips_raw"]) < 2

Copies(l, c) == \A file \in Files : c = Copy(file) => files[l][file] = "good"

\* The relations of the extract are all read before their table is created.
readRestrictionsOPL(l, c) == c = CrearRestriccionesRaw => files[l]["calles_raw"] # "bad row"

Accepted(l, c) ==
    /\ c = InitDB \/ schema
    /\ c.needs \subseteq DOMAIN tables
    /\ c.creates \cap DOMAIN tables = {}
    /\ Indexable(c)
    /\ Copies(l, c)
    /\ readRestrictionsOPL(l, c)

\* The next command string: it commits, or the load ends there.
RunScript(l) ==
    LET c == Pipeline(l)[pc[l]] IN
    /\ phase[l] = "loading"
    /\ IF Accepted(l, c)
       THEN /\ schema' = TRUE
            /\ tables' = [t \in DOMAIN tables \cup c.creates \cup c.replaces |-> After(l, c, t)]
            /\ IF pc[l] = Len(Pipeline(l))
               THEN phase' = [phase EXCEPT ![l] = "done"] /\ UNCHANGED pc
               ELSE pc' = [pc EXCEPT ![l] = @ + 1] /\ UNCHANGED phase
            /\ IF tables' = tables THEN UNCHANGED disturbed ELSE ChangedBy(l)
       ELSE /\ phase' = [phase EXCEPT ![l] = "failed"]
            /\ UNCHANGED <<schema, tables, pc, disturbed>>
    /\ UNCHANGED <<options, waited>>

\* A signal, a lost connection, an error of the server, a program that is absent.
Fail(l) ==
    /\ Active(l) \/ phase[l] = "connecting"
    /\ phase' = [phase EXCEPT ![l] = "failed"]
    /\ UNCHANGED <<schema, tables, options, pc, waited, disturbed>>

\* The migration that the refusal of a reload asks for, applied by hand.
Migrate ==
    /\ Flows \in DOMAIN tables
    /\ Ranking \in DOMAIN tables
    /\ tables' = [t \in (DOMAIN tables \ {Flows}) \cup {Zones} |->
                     IF t \in {Ranking, Zones} THEN {} ELSE tables[t]]
    /\ disturbed' = disturbed \cup {l \in Loads : Active(l)}
    /\ UNCHANGED <<schema, options, phase, pc, waited>>

\* The worker stores captures.
StoreCapture ==
    /\ "capturas_colectivos" \in DOMAIN tables
    /\ tables["capturas_colectivos"] = {}
    /\ tables' = [tables EXCEPT !["capturas_colectivos"] = {"worker"}]
    /\ UNCHANGED <<schema, options, phase, pc, waited, disturbed>>

Next ==
    \/ \E l \in Loads :
          Start(l) \/ WaitForDatabase(l) \/ Check(l) \/ DropSchema(l) \/ RunScript(l) \/ Fail(l)
    \/ Migrate
    \/ StoreCapture

Spec == Init /\ [][Next]_vars

-----------------------------------------------------------------------------
TypeOK ==
    /\ schema \in BOOLEAN
    /\ DOMAIN tables \subseteq Finals \cup Files \cup {Flows, "calles_restricciones_raw"}
    /\ \A t \in DOMAIN tables : tables[t] \subseteq Loads \cup {Old, "worker"}
    /\ kind \in [Loads -> Kinds] /\ files \in [Loads -> [Files -> FileStates]]
    /\ phase \in [Loads -> {"idle", "connecting", "gave up", "checking", "refused", "dropping", "loading", "failed", "done"}]
    /\ \A l \in Loads : pc[l] \in 1..Len(Pipeline(l))
    /\ waited \in [Loads -> Nat] /\ ready \in [Loads -> 0..MaximumReady]
    /\ disturbed \subseteq Loads

\* However many loaders fail, follow or overlap each other, the transfers and the
\* ranking that the API serves are of the very routes it serves, or are empty.
DerivedFollowCatalogue ==
    "recorridos" \in DOMAIN tables =>
        /\ tables["conexiones_recorridos"] \in {{}, tables["recorridos"]}
        /\ tables[Ranking] # {} =>
              /\ tables["recorridos"] \subseteq tables[Ranking]
              /\ tables[Ranking] \subseteq tables["recorridos"] \cup tables["combinaciones_od"]

\* A load that says it ended, and during which no other one changed the tables,
\* wrote them all, each from its own files alone.
SuccessMeansComplete ==
    [][\A l \in Loads :
          phase[l] # "done" /\ phase'[l] = "done" /\ l \notin disturbed =>
              \A t \in Written(l) : tables'[t] = {l}]_vars

\* "Retrying until the database accepts connections or the budget runs out": a
\* database that answers one attempt before the budget ends is not given up, and
\* the wait ends at most two intervals after it.
WaitHonoursBudget ==
    \A l \in Loads :
        /\ waited[l] <= WaitBudget + 2 * RetryInterval
        /\ phase[l] = "gave up" => ready[l] > WaitBudget - RetryInterval /\ waited[l] >= WaitBudget

\* "Para actualizar unicamente GTFS en una base ya poblada": a database that has
\* the tables of ddl.sql, migrated or new, passes the check of a reload.
MigratedDatabasesReload ==
    \A l \in Loads :
        phase[l] = "checking" /\ kind[l] = "reload" /\ Finals \subseteq DOMAIN tables => checkGTFSReloadSchema
=============================================================================
