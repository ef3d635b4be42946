---------------------------- MODULE DemoSeedProofs ----------------------------
(***************************************************************************)
(* The operator's tools.  First the migrations: the schema is that of the  *)
(* revisions in alembic_version, because a downgrade takes down whatever   *)
(* was built on what it takes down, and nothing that is owed is dropped.   *)
(* Then the seed program, killed anywhere and run again, for every list of *)
(* players, events and bets: what a re-run meets again are users and       *)
(* credits, which it finds; the marker comes before anything that it would *)
(* write a second time.                                                    *)
(***************************************************************************)
EXTENDS DemoSeed, TLAPS

-----------------------------------------------------------------------------
\* What each revision follows.
LEMMA Parents ==
    /\ Revision = {"0001", "0002", "0003", "0004_phase3", "0004_phase6", "0005", "0006",
                   "0007", "0008", "0009", "0010", "0011_phase13", "0011_livebets", "0012"}
    /\ down_revision \in [Revision -> SUBSET Revision]
    /\ down_revision["0001"] = {}
    /\ down_revision["0002"] = {"0001"}
    /\ down_revision["0003"] = {"0002"}
    /\ down_revision["0004_phase3"] = {"0003"}
    /\ down_revision["0004_phase6"] = {"0003"}
    /\ down_revision["0005"] = {"0004_phase3"}
    /\ down_revision["0006"] = {"0005", "0004_phase6"}
    /\ down_revision["0007"] = {"0006"}
    /\ down_revision["0008"] = {"0007"}
    /\ down_revision["0009"] = {"0008"}
    /\ down_revision["0010"] = {"0009"}
    /\ down_revision["0011_phase13"] = {"0010"}
    /\ down_revision["0011_livebets"] = {"0011_phase13"}
    /\ down_revision["0012"] = {"0011_livebets"}
<1> DEFINE Before(r) == {History[i] : i \in {j \in DOMAIN History :
                                    j + 1 \in DOMAIN History /\ History[j + 1] = r}}
<1>1. /\ DOMAIN History = 1..14
      /\ History[1] = "0001" /\ History[2] = "0002" /\ History[3] = "0003"
      /\ History[4] = "0004_phase3" /\ History[5] = "0004_phase6" /\ History[6] = "0005"
      /\ History[7] = "0006" /\ History[8] = "0007" /\ History[9] = "0008"
      /\ History[10] = "0009" /\ History[11] = "0010" /\ History[12] = "0011_phase13"
      /\ History[13] = "0011_livebets" /\ History[14] = "0012"
  BY DEF History
<1>2. Revision = {"0001", "0002", "0003", "0004_phase3", "0004_phase6", "0005", "0006",
                  "0007", "0008", "0009", "0010", "0011_phase13", "0011_livebets", "0012"}
  BY <1>1 DEF Revision
<1>3. \A i, j \in 1..14 : History[i] = History[j] => i = j
  BY <1>1
<1>4. ASSUME NEW n \in 1..13
      PROVE  Before(History[n + 1]) = {History[n]}
  <2>1. n \in 1..14 /\ n + 1 \in 1..14 /\ DOMAIN History = 1..14
    BY <1>1
  <2>2. \A j \in 1..14 : j + 1 \in 1..14 /\ History[j + 1] = History[n + 1] => j = n
    <3> TAKE j \in 1..14
    <3> HAVE j + 1 \in 1..14 /\ History[j + 1] = History[n + 1]
    <3>1. j + 1 = n + 1
      BY <1>3, <2>1
    <3> QED
      BY <2>1, <3>1
  <2>3. {j \in DOMAIN History : j + 1 \in DOMAIN History /\ History[j + 1] = History[n + 1]}
          = {n}
    BY <2>1, <2>2
  <2> QED
    BY <2>3
<1> HIDE DEF Before
<1>5. /\ Before("0002") = {"0001"}
      /\ Before("0003") = {"0002"}
      /\ Before("0004_phase3") = {"0003"}
      /\ Before("0007") = {"0006"}
      /\ Before("0008") = {"0007"}
      /\ Before("0009") = {"0008"}
      /\ Before("0010") = {"0009"}
      /\ Before("0011_phase13") = {"0010"}
      /\ Before("0011_livebets") = {"0011_phase13"}
      /\ Before("0012") = {"0011_livebets"}
  BY <1>1, <1>4
<1>6. down_revision = [r \in Revision |-> CASE r = "0001" -> {}
          [] r = "0004_phase6" -> {"0003"}
          [] r = "0005" -> {"0004_phase3"}
          [] r = "0006" -> {"0005", "0004_phase6"}
          [] OTHER -> Before(r)]
  BY DEF down_revision, Before
<1> QED
  BY <1>2, <1>5, <1>6

\* Ancestors is the function that its recursive definition describes.
LEMMA AncestorsOf ==
    \A r \in Revision :
       Ancestors[r] = UNION {{parent} \cup Ancestors[parent] : parent \in down_revision[r]}
<1> DEFINE Solves(f) == f = [r \in Revision |->
              UNION {{parent} \cup f[parent] : parent \in down_revision[r]}]
           trunk == {"0001", "0002", "0003"}
           left == trunk \cup {"0004_phase3"}
           merged == left \cup {"0005", "0004_phase6"}
           f == [r \in Revision |->
                   CASE r = "0001" -> {}
                     [] r = "0002" -> {"0001"}
                     [] r = "0003" -> {"0001", "0002"}
                     [] r = "0004_phase3" -> trunk
                     [] r = "0004_phase6" -> trunk
                     [] r = "0005" -> left
                     [] r = "0006" -> merged
                     [] r = "0007" -> merged \cup {"0006"}
                     [] r = "0008" -> merged \cup {"0006", "0007"}
                     [] r = "0009" -> merged \cup {"0006", "0007", "0008"}
                     [] r = "0010" -> merged \cup {"0006", "0007", "0008", "0009"}
                     [] r = "0011_phase13" ->
                          merged \cup {"0006", "0007", "0008", "0009", "0010"}
                     [] r = "0011_livebets" ->
                          merged \cup {"0006", "0007", "0008", "0009", "0010", "0011_phase13"}
                     [] r = "0012" ->
                          merged \cup {"0006", "0007", "0008", "0009", "0010", "0011_phase13",
                                       "0011_livebets"}]
<1>1. /\ f["0001"] = {} /\ f["0002"] = {"0001"} /\ f["0003"] = {"0001", "0002"}
      /\ f["0004_phase3"] = trunk /\ f["0004_phase6"] = trunk
      /\ f["0005"] = left /\ f["0006"] = merged
      /\ f["0007"] = merged \cup {"0006"}
      /\ f["0008"] = f["0007"] \cup {"0007"}
      /\ f["0009"] = f["0008"] \cup {"0008"}
      /\ f["0010"] = f["0009"] \cup {"0009"}
      /\ f["0011_phase13"] = f["0010"] \cup {"0010"}
      /\ f["0011_livebets"] = f["0011_phase13"] \cup {"0011_phase13"}
      /\ f["0012"] = f["0011_livebets"] \cup {"0011_livebets"}
      /\ f = [r \in Revision |-> f[r]]
  BY Parents
<1> HIDE DEF f
<1>2. ASSUME NEW r \in Revision
      PROVE  f[r] = UNION {{parent} \cup f[parent] : parent \in down_revision[r]}
  <2>1. CASE r \in trunk
    BY <1>1, <2>1, Parents
  <2>2. CASE r \in {"0004_phase3", "0004_phase6", "0005"}
    BY <1>1, <2>2, Parents
  <2>3. CASE r = "0006"
    BY <1>1, <2>3, Parents
  <2>4. CASE r \in {"0007", "0008", "0009", "0010"}
    BY <1>1, <2>4, Parents
  <2>5. CASE r \in {"0011_phase13", "0011_livebets", "0012"}
    BY <1>1, <2>5, Parents
  <2> QED
    BY <2>1, <2>2, <2>3, <2>4, <2>5, Parents
<1>3. Solves(f)
  BY <1>1, <1>2
<1>4. Ancestors = CHOOSE g : Solves(g)
  BY DEF Ancestors
<1>5. Solves(Ancestors)
  <2> HIDE DEF Solves
  <2> QED
    BY <1>3, <1>4
<1> QED
  BY <1>5

\* The ancestors of an ancestor are ancestors.
LEMMA AncestorsAreClosed ==
    \A r \in Revision :
       /\ Ancestors[r] \subseteq Revision
       /\ \A q \in Ancestors[r] : Ancestors[q] \subseteq Ancestors[r]
<1> DEFINE Closed(r) == /\ Ancestors[r] \subseteq Revision
                        /\ \A q \in Ancestors[r] : Ancestors[q] \subseteq Ancestors[r]
<1>1. ASSUME NEW r \in Revision, \A parent \in down_revision[r] : Closed(parent)
      PROVE  Closed(r)
  <2>1. Ancestors[r] = UNION {{parent} \cup Ancestors[parent] : parent \in down_revision[r]}
    BY AncestorsOf
  <2>2. down_revision[r] \subseteq Revision
    BY Parents
  <2> QED
    BY <1>1, <2>1, <2>2
<1> HIDE DEF Closed
<1>2. Closed("0001") /\ Closed("0002") /\ Closed("0003")
  <2>1. Closed("0001")
    BY <1>1, Parents
  <2>2. Closed("0002")
    BY <1>1, <2>1, Parents
  <2> QED
    BY <1>1, <2>1, <2>2, Parents
<1>3. Closed("0004_phase3") /\ Closed("0004_phase6")
  BY <1>1, <1>2, Parents
<1>4. Closed("0005")
  BY <1>1, <1>3, Parents
<1>5. Closed("0006")
  BY <1>1, <1>3, <1>4, Parents
<1>6. Closed("0007")
  BY <1>1, <1>5, Parents
<1>7. Closed("0008")
  BY <1>1, <1>6, Parents
<1>8. Closed("0009")
  BY <1>1, <1>7, Parents
<1>9. Closed("0010")
  BY <1>1, <1>8, Parents
<1>10. Closed("0011_phase13")
  BY <1>1, <1>9, Parents
<1>11. Closed("0011_livebets")
  BY <1>1, <1>10, Parents
<1>12. Closed("0012")
  BY <1>1, <1>11, Parents
<1>13. \A r \in Revision : Closed(r)
  BY <1>2, <1>3, <1>4, <1>5, <1>6, <1>7, <1>8, <1>9, <1>10, <1>11, <1>12, Parents
<1> QED
  BY <1>13 DEF Closed

\* The lines of descent that the objects of the schema rely on.
LEMMA Descent ==
    /\ "0002" \in Ancestors["0008"]
    /\ \A r \in {"0004_phase6", "0007", "0010", "0011_phase13"} : "0003" \in Ancestors[r]
    /\ "0004_phase3" \in Ancestors["0011_livebets"]
    /\ "0005" \in Ancestors["0012"]
<1>1. \A r \in Revision : \A parent \in down_revision[r] :
         parent \in Ancestors[r] /\ Ancestors[parent] \subseteq Ancestors[r]
  BY AncestorsOf
<1>2. "0002" \in Ancestors["0003"] /\ "0003" \in Ancestors["0004_phase3"]
      /\ "0003" \in Ancestors["0004_phase6"] /\ Ancestors["0003"] \subseteq Ancestors["0004_phase3"]
  BY <1>1, Parents
<1>3. /\ {"0002", "0003", "0004_phase3"} \subseteq Ancestors["0005"]
      /\ {"0002", "0003", "0004_phase3", "0005"} \subseteq Ancestors["0006"]
  BY <1>1, <1>2, Parents
<1>4. {"0002", "0003", "0004_phase3", "0005"} \subseteq Ancestors["0007"]
  BY <1>1, <1>3, Parents
<1>5. {"0002", "0003", "0004_phase3", "0005"} \subseteq Ancestors["0008"]
  BY <1>1, <1>4, Parents
<1>6. {"0003", "0004_phase3", "0005"} \subseteq Ancestors["0009"]
  BY <1>1, <1>5, Parents
<1>7. {"0003", "0004_phase3", "0005"} \subseteq Ancestors["0010"]
  BY <1>1, <1>6, Parents
<1>8. {"0003", "0004_phase3", "0005"} \subseteq Ancestors["0011_phase13"]
  BY <1>1, <1>7, Parents
<1>9. {"0004_phase3", "0005"} \subseteq Ancestors["0011_livebets"]
  BY <1>1, <1>8, Parents
<1>10. "0005" \in Ancestors["0012"]
  BY <1>1, <1>9, Parents
<1> QED
  BY <1>2, <1>4, <1>5, <1>7, <1>8, <1>9, <1>10

\* No two revisions create the same object, and what a revision adds to a table is
\* above the revision that creates the table.
LEMMA TellApart ==
    ASSUME NEW r \in Revision, NEW q \in Revision, q # r
    PROVE  /\ upgrade[q] \cap upgrade[r] = {}
           /\ \A object \in upgrade[q] :
                 <<object[1], "table">> \in upgrade[r] => r \in Ancestors[q]
<1> USE DEF Part, Table, phase1_foundations, phase2_auth, phase4_markets,
            phase3_wallet_ledger, phase6_polymarket_sync, phase5_bets, grace_period,
            user_created_at, tenant_config, resolution_stakes, market_groups,
            livebets_bridge, early_close
<1>1. CASE q = "0001"
  BY <1>1, Parents, Descent DEF upgrade
<1>2. CASE q = "0002"
  BY <1>2, Parents, Descent DEF upgrade
<1>3. CASE q = "0003"
  BY <1>3, Parents, Descent DEF upgrade
<1>4. CASE q = "0004_phase3"
  BY <1>4, Parents, Descent DEF upgrade
<1>5. CASE q = "0004_phase6"
  BY <1>5, Parents, Descent DEF upgrade
<1>6. CASE q = "0005"
  BY <1>6, Parents, Descent DEF upgrade
<1>7. CASE q = "0006"
  BY <1>7, Parents, Descent DEF upgrade
<1>8. CASE q = "0007"
  BY <1>8, Parents, Descent DEF upgrade
<1>9. CASE q = "0008"
  BY <1>9, Parents, Descent DEF upgrade
<1>10. CASE q = "0009"
  BY <1>10, Parents, Descent DEF upgrade
<1>11. CASE q = "0010"
  BY <1>11, Parents, Descent DEF upgrade
<1>12. CASE q = "0011_phase13"
  BY <1>12, Parents, Descent DEF upgrade
<1>13. CASE q = "0011_livebets"
  BY <1>13, Parents, Descent DEF upgrade
<1>14. CASE q = "0012"
  BY <1>14, Parents, Descent DEF upgrade
<1> QED
  BY <1>1, <1>2, <1>3, <1>4, <1>5, <1>6, <1>7, <1>8, <1>9, <1>10, <1>11, <1>12, <1>13, <1>14,
     Parents

-----------------------------------------------------------------------------
\* The invariant of the migrations.

Extension == Part("database", {"pg_trgm"})
Objects == UNION {upgrade[r] : r \in Revision}
Escrow == "livebets_escrow"
SaleTime == <<"bets", "closed_at">>

\* The objects of these revisions, the extension aside.
BuiltBy(objects, revisions) ==
    objects \ Extension = (UNION {upgrade[r] : r \in revisions}) \ Extension

\* Revisions with all that they follow.
Lineal(revisions) ==
    revisions \subseteq Revision /\ \A r \in revisions : Ancestors[r] \subseteq revisions

\* A command in progress.  What it has left to take down includes all that was
\* built on it; when it has taken the escrow account away nothing refers to it.
RunInv ==
    /\ run \in [todo : SUBSET Revision, up : BOOLEAN, schema : SUBSET Objects,
                applied : SUBSET Revision, checked : BOOLEAN]
    /\ Lineal(run.applied) /\ BuiltBy(run.schema, run.applied)
    /\ run.up => applied \subseteq run.applied /\ Lineal(run.applied \cup run.todo)
    /\ ~run.up =>
         /\ run.todo \subseteq run.applied
         /\ \A r \in run.applied : Ancestors[r] \cap run.todo # {} => r \in run.todo
         /\ "0011_livebets" \in applied \ run.applied => ~Referenced
    /\ closed => SaleTime \in run.schema

LiveInv ==
    /\ live \in [mirror : {"none", "pending", "settled"}, stake : {0, 1}, entries : BOOLEAN]
    /\ live.stake > 0 => Escrow \in system /\ live.mirror = "pending" /\ live.entries
    /\ Escrow \in system => "0011_livebets" \in applied

MigrationsInv ==
    /\ schema \subseteq Objects /\ Lineal(applied) /\ BuiltBy(schema, applied)
    /\ closed \in BOOLEAN /\ (closed => SaleTime \in schema)
    /\ LiveInv
    /\ run = NoRun \/ RunInv

\* An object tells which revision made it.
LEMMA MadeBy ==
    ASSUME NEW objects, NEW revisions \in SUBSET Revision, BuiltBy(objects, revisions),
           NEW r \in Revision, NEW object \in upgrade[r], object \notin Extension
    PROVE  object \in objects <=> r \in revisions
  BY TellApart DEF BuiltBy

\* The objects that the properties are about.
LEMMA Makers ==
    /\ SaleTime \in upgrade["0012"] \ Extension
    /\ <<"livebets_bets", "table">> \in upgrade["0011_livebets"] \ Extension
    /\ <<"accounts", "table">> \in upgrade["0004_phase3"] \ Extension
    /\ <<"entries", "table">> \in upgrade["0004_phase3"] \ Extension
    /\ \A r \in Revision : Escrow \in seeds[r] <=> r = "0011_livebets"
  BY Parents
  DEF upgrade, Part, Table, phase3_wallet_ledger, livebets_bridge, early_close, Extension,
      SaleTime, Escrow, seeds

\* Going up: the objects of the next revision are added.
LEMMA AppliedUp ==
    ASSUME RunInv, run.up, NEW r \in Ready, run' = Applied(r)
    PROVE  /\ Lineal(run'.applied) /\ BuiltBy(run'.schema, run'.applied)
           /\ Lineal(run'.applied \cup run'.todo) /\ run'.schema \subseteq Objects
           /\ run'.applied = run.applied \cup {r} /\ run'.todo = run.todo \ {r}
           /\ run.schema \subseteq run'.schema
<1>1. r \in run.todo /\ Ancestors[r] \cap run.todo = {} /\ r \in Revision
  BY DEF Ready, RunInv
<1>2. /\ run'.applied = run.applied \cup {r} /\ run'.todo = run.todo \ {r}
      /\ run'.schema = run.schema \cup upgrade[r]
  BY DEF Applied, RunInv
<1>3. Lineal(run.applied) /\ Lineal(run.applied \cup run.todo) /\ BuiltBy(run.schema, run.applied)
      /\ run.schema \subseteq Objects
  BY DEF RunInv
<1>4. Ancestors[r] \subseteq run.applied
  BY <1>1, <1>3 DEF Lineal
<1>5. Lineal(run'.applied)
  BY <1>1, <1>2, <1>3, <1>4 DEF Lineal
<1>6. run'.applied \cup run'.todo = run.applied \cup run.todo
  BY <1>1, <1>2
<1>7. BuiltBy(run'.schema, run'.applied)
  BY <1>2, <1>3 DEF BuiltBy
<1>8. run'.schema \subseteq Objects
  BY <1>1, <1>2, <1>3 DEF Objects
<1> QED
  BY <1>2, <1>3, <1>5, <1>6, <1>7, <1>8

\* Going down: the objects of the revision go, and the tables take nothing with them
\* that another revision has made.
LEMMA AppliedDown ==
    ASSUME RunInv, ~run.up, NEW r \in Ready, run' = Applied(r)
    PROVE  /\ Lineal(run'.applied) /\ BuiltBy(run'.schema, run'.applied)
           /\ run'.todo \subseteq run'.applied /\ run'.schema \subseteq Objects
           /\ \A q \in run'.applied : Ancestors[q] \cap run'.todo # {} => q \in run'.todo
           /\ run'.applied = run.applied \ {r} /\ run'.todo = run.todo \ {r}
<1> DEFINE dropped == upgrade[r] \ Extension
<1>1. r \in run.todo /\ r \in Revision /\ \A q \in run.todo : r \notin Ancestors[q]
  BY DEF Ready, RunInv
<1>2. /\ run'.applied = run.applied \ {r} /\ run'.todo = run.todo \ {r}
      /\ run'.schema = Without(run.schema, dropped)
  BY <1>1 DEF Applied, RunInv, downgrade, Extension
<1>3. /\ Lineal(run.applied) /\ BuiltBy(run.schema, run.applied)
      /\ run.schema \subseteq Objects /\ run.todo \subseteq run.applied
      /\ \A q \in run.applied : Ancestors[q] \cap run.todo # {} => q \in run.todo
  BY DEF RunInv
<1>4. \A q \in run.applied : r \notin Ancestors[q]
  BY <1>1, <1>3
<1>5. Lineal(run'.applied)
  BY <1>2, <1>3, <1>4 DEF Lineal
<1>6. ASSUME NEW object, object \notin Extension
      PROVE  object \in run'.schema <=> \E q \in run'.applied : object \in upgrade[q]
  <2>1. object \in run.schema <=> \E q \in run.applied : object \in upgrade[q]
    BY <1>3, <1>6 DEF BuiltBy
  <2>2. object \in run'.schema <=> /\ object \in run.schema /\ object \notin upgrade[r]
                                   /\ <<object[1], "table">> \notin dropped
    BY <1>2, <1>6 DEF Without
  <2>3. ASSUME NEW q \in run'.applied, object \in upgrade[q]
        PROVE  object \notin upgrade[r] /\ <<object[1], "table">> \notin dropped
    <3>1. q \in Revision /\ q # r /\ q \in run.applied
      BY <1>2, <1>3 DEF Lineal
    <3> QED
      BY <1>1, <1>4, <2>3, <3>1, TellApart
  <2> QED
    BY <1>2, <2>1, <2>2, <2>3
<1>7. BuiltBy(run'.schema, run'.applied)
  BY <1>6 DEF BuiltBy
<1>8. run'.schema \subseteq Objects
  BY <1>2, <1>3 DEF Without
<1>9. /\ run'.todo \subseteq run'.applied
      /\ \A q \in run'.applied : Ancestors[q] \cap run'.todo # {} => q \in run'.todo
  BY <1>2, <1>3
<1> QED
  BY <1>2, <1>5, <1>7, <1>8, <1>9

-----------------------------------------------------------------------------
\* What the steps of Alembic keep.

LEMMA MigrationsBegin == MigrationsInit => MigrationsInv
<1> SUFFICES ASSUME MigrationsInit
             PROVE  MigrationsInv
  OBVIOUS
<1>1. /\ applied = {} /\ schema = {} /\ system = {} /\ closed = FALSE /\ run = NoRun
      /\ live = [mirror |-> "none", stake |-> 0, entries |-> FALSE]
  BY DEF MigrationsInit, NoLiveBet
<1>2. Lineal(applied) /\ BuiltBy(schema, applied)
  BY <1>1 DEF Lineal, BuiltBy
<1>3. LiveInv
  BY <1>1 DEF LiveInv, Escrow
<1> QED
  BY <1>1, <1>2, <1>3 DEF MigrationsInv

\* An upgrade takes all that its target follows, a downgrade all that follows it.
LEMMA StartKeeps ==
    ASSUME MigrationsInv, \/ \E target \in Revision : AlembicUpgrade(target)
                          \/ \E target \in Revision \cup {"base"} : AlembicDowngrade(target)
    PROVE  MigrationsInv'
<1>1. schema \subseteq Objects /\ Lineal(applied) /\ BuiltBy(schema, applied)
      /\ (closed => SaleTime \in schema) /\ applied \subseteq Revision
  BY DEF MigrationsInv, Lineal
<1>2. UNCHANGED <<applied, schema, system, live, closed>>
  BY DEF AlembicUpgrade, AlembicDowngrade, Start
<1>3. CASE \E target \in Revision : AlembicUpgrade(target)
  <2>1. PICK target \in Revision : AlembicUpgrade(target)
    BY <1>3
  <2> DEFINE todo == (Ancestors[target] \cup {target}) \ applied
  <2>2. run' = [todo |-> todo, up |-> TRUE, schema |-> schema, applied |-> applied,
                checked |-> FALSE]
    BY <2>1 DEF AlembicUpgrade, Start
  <2>3. Lineal(applied \cup todo)
    BY <1>1, AncestorsAreClosed DEF Lineal
  <2>4. todo \in SUBSET Revision
    BY AncestorsAreClosed
  <2> HIDE DEF todo
  <2>5. RunInv'
    BY <1>1, <1>2, <2>2, <2>3, <2>4 DEF RunInv
  <2> QED
    BY <1>2, <2>5 DEF MigrationsInv, LiveInv
<1>4. CASE \E target \in Revision \cup {"base"} : AlembicDowngrade(target)
  <2>1. PICK target \in Revision \cup {"base"} : AlembicDowngrade(target)
    BY <1>4
  <2> DEFINE todo == {r \in applied : target = "base" \/ target \in Ancestors[r]}
  <2>2. run' = [todo |-> todo, up |-> FALSE, schema |-> schema, applied |-> applied,
                checked |-> FALSE]
    BY <2>1 DEF AlembicDowngrade, Start
  <2>3. \A r \in applied : Ancestors[r] \cap todo # {} => r \in todo
    BY <1>1, AncestorsAreClosed
  <2>4. todo \subseteq applied
    OBVIOUS
  <2> HIDE DEF todo
  <2>5. RunInv'
    BY <1>1, <1>2, <2>2, <2>3, <2>4 DEF RunInv
  <2> QED
    BY <1>2, <2>5 DEF MigrationsInv, LiveInv
<1> QED
  BY <1>3, <1>4

\* The next revision goes up or down.
LEMMA ApplyKeeps ==
    ASSUME MigrationsInv, NEW r \in Ready, AlembicApply(r)
    PROVE  MigrationsInv'
<1>1. /\ UNCHANGED <<applied, schema, system, live, closed>>
      /\ run' = Applied(r) /\ Executable(r)
  BY DEF AlembicApply
<1>2. RunInv
  BY DEF MigrationsInv, Ready, NoRun
<1>3. /\ run'.up = run.up /\ run'.checked \in BOOLEAN
      /\ run' = [todo |-> run'.todo, up |-> run'.up, schema |-> run'.schema,
                 applied |-> run'.applied, checked |-> run'.checked]
  BY <1>1, <1>2 DEF RunInv, Applied
<1>4. r \in run.todo /\ r \in Revision
  BY <1>2 DEF Ready, RunInv
<1>5. CASE run.up
  <2>1. /\ Lineal(run'.applied) /\ BuiltBy(run'.schema, run'.applied)
        /\ Lineal(run'.applied \cup run'.todo) /\ run'.schema \subseteq Objects
        /\ run'.applied = run.applied \cup {r} /\ run'.todo = run.todo \ {r}
        /\ run.schema \subseteq run'.schema
    BY <1>1, <1>2, <1>5, AppliedUp
  <2>2. run' \in [todo : SUBSET Revision, up : BOOLEAN, schema : SUBSET Objects,
                  applied : SUBSET Revision, checked : BOOLEAN]
    BY <1>2, <1>3, <1>4, <2>1 DEF RunInv
  <2>3. RunInv'
    BY <1>1, <1>2, <1>3, <1>5, <2>1, <2>2 DEF RunInv
  <2> QED
    BY <1>1, <2>3 DEF MigrationsInv, LiveInv
<1>6. CASE ~run.up
  <2>1. /\ Lineal(run'.applied) /\ BuiltBy(run'.schema, run'.applied)
        /\ run'.todo \subseteq run'.applied /\ run'.schema \subseteq Objects
        /\ \A q \in run'.applied : Ancestors[q] \cap run'.todo # {} => q \in run'.todo
        /\ run'.applied = run.applied \ {r} /\ run'.todo = run.todo \ {r}
    BY <1>1, <1>2, <1>6, AppliedDown
  <2>2. run' \in [todo : SUBSET Revision, up : BOOLEAN, schema : SUBSET Objects,
                  applied : SUBSET Revision, checked : BOOLEAN]
    BY <1>2, <1>3, <1>4, <2>1 DEF RunInv
  <2>3. closed => SaleTime \in run'.schema
    <3> SUFFICES ASSUME closed
                 PROVE  SaleTime \in run'.schema
      OBVIOUS
    <3>1. SaleTime \in upgrade["0012"] /\ SaleTime \notin Extension /\ "0012" \in Revision
      BY Makers, Parents
    <3>2. SaleTime \in run.schema /\ BuiltBy(run.schema, run.applied)
          /\ run.applied \in SUBSET Revision
      BY <1>2 DEF RunInv
    <3>3. "0012" \in run.applied
      BY <3>1, <3>2, MadeBy
    <3>4. r # "0012"
      BY <1>1, <1>6 DEF Executable
    <3>5. "0012" \in run'.applied /\ run'.applied \in SUBSET Revision
      BY <2>1, <3>2, <3>3, <3>4
    <3> QED
      BY <2>1, <3>1, <3>5, MadeBy
  <2>4. "0011_livebets" \in applied \ run'.applied => ~Referenced
    <3>1. r = "0011_livebets" => ~Referenced
      BY <1>1, <1>6 DEF Executable
    <3> QED
      BY <1>2, <1>6, <2>1, <3>1 DEF RunInv
  <2>5. Referenced' = Referenced
    BY <1>1 DEF Referenced
  <2>6. RunInv'
    BY <1>1, <1>3, <1>6, <2>1, <2>2, <2>3, <2>4, <2>5 DEF RunInv
  <2> QED
    BY <1>1, <2>6 DEF MigrationsInv, LiveInv
<1> QED
  BY <1>5, <1>6

\* A stake in escrow survives the commit with all that it needs.
LEMMA CommitKeepsTheStake ==
    ASSUME MigrationsInv, RunInv, AlembicCommit
    PROVE  LiveInv'
<1>1. /\ applied' = run.applied
      /\ system' = (system \ Unseeded) \cup UNION {seeds[r] : r \in run.applied \ applied}
      /\ live' = [mirror  |-> IF <<"livebets_bets", "table">> \in run.schema
                              THEN live.mirror ELSE "none",
                  stake   |-> IF <<"accounts", "table">> \in run.schema THEN live.stake ELSE 0,
                  entries |-> live.entries /\ <<"entries", "table">> \in run.schema]
  BY DEF AlembicCommit
<1>2. LiveInv /\ applied \subseteq Revision /\ run.applied \in SUBSET Revision
      /\ Lineal(run.applied) /\ BuiltBy(run.schema, run.applied)
  BY DEF MigrationsInv, RunInv, Lineal
<1>3. "0004_phase3" \in Revision /\ "0011_livebets" \in Revision
  BY Parents
<1>4. /\ <<"livebets_bets", "table">> \in run.schema <=> "0011_livebets" \in run.applied
      /\ <<"accounts", "table">> \in run.schema <=> "0004_phase3" \in run.applied
      /\ <<"entries", "table">> \in run.schema <=> "0004_phase3" \in run.applied
  BY <1>2, <1>3, Makers, MadeBy
<1>5. Escrow \in Unseeded <=> "0011_livebets" \in applied \ run.applied
  BY <1>2, <1>3, Makers DEF Unseeded
<1>6. Escrow \in system' => "0011_livebets" \in applied'
  BY <1>1, <1>2, <1>3, <1>5, Makers DEF LiveInv
<1>7. live' \in [mirror : {"none", "pending", "settled"}, stake : {0, 1}, entries : BOOLEAN]
  BY <1>1, <1>2 DEF LiveInv
<1>8. ASSUME live'.stake > 0
      PROVE  Escrow \in system' /\ live'.mirror = "pending" /\ live'.entries
  <2>1. live.stake > 0
    BY <1>1, <1>8
  <2>2. Escrow \in system /\ live.mirror = "pending" /\ live.entries
        /\ "0011_livebets" \in applied
    BY <1>2, <2>1 DEF LiveInv
  <2>3. "0011_livebets" \in run.applied
    BY <2>2 DEF RunInv, Referenced, Escrow
  <2>4. "0004_phase3" \in run.applied
    BY <1>2, <2>3, Descent DEF Lineal
  <2>5. Escrow \in system'
    BY <1>1, <1>5, <2>2, <2>3
  <2> QED
    BY <1>1, <1>4, <2>2, <2>3, <2>4, <2>5
<1> QED
  BY <1>6, <1>7, <1>8 DEF LiveInv

LEMMA AlembicKeeps ==
    ASSUME MigrationsInv, Alembic
    PROVE  MigrationsInv'
<1>1. CASE \/ \E target \in Revision : AlembicUpgrade(target)
           \/ \E target \in Revision \cup {"base"} : AlembicDowngrade(target)
  BY <1>1, StartKeeps
<1>2. ASSUME NEW r \in Ready, AlembicCheck(r)
      PROVE  MigrationsInv'
  <2>1. run' = [run EXCEPT !.checked = TRUE] /\ UNCHANGED <<applied, schema, system, live, closed>>
    BY <1>2 DEF AlembicCheck
  <2>2. RunInv
    BY DEF MigrationsInv, Ready, NoRun
  <2>3. RunInv'
    BY <2>1, <2>2 DEF RunInv, Referenced
  <2> QED
    BY <2>1, <2>3 DEF MigrationsInv, LiveInv
<1>3. ASSUME NEW r \in Ready, AlembicApply(r)
      PROVE  MigrationsInv'
  BY <1>3, ApplyKeeps
<1>4. CASE AlembicCommit
  <2>1. RunInv /\ run' = NoRun /\ applied' = run.applied /\ schema' = run.schema
        /\ closed' = closed
    BY <1>4 DEF AlembicCommit, MigrationsInv
  <2>2. LiveInv'
    BY <1>4, <2>1, CommitKeepsTheStake
  <2> QED
    BY <2>1, <2>2 DEF MigrationsInv, RunInv, NoRun
<1>5. CASE AlembicAbort
  BY <1>5 DEF AlembicAbort, MigrationsInv, LiveInv, NoRun
<1> QED
  BY <1>1, <1>2, <1>3, <1>4, <1>5 DEF Alembic

-----------------------------------------------------------------------------
\* What everybody else keeps.

\* A table that no revision in progress has altered is there for both.
LEMMA FreeTables ==
    ASSUME NEW tables, Free(tables), NEW table \in tables, NEW part
    PROVE  run # NoRun => (<<table, part>> \in schema <=> <<table, part>> \in run.schema)
<1> DEFINE object == <<table, part>>
<1> SUFFICES ASSUME run # NoRun
             PROVE  object \in schema <=> object \in run.schema
  OBVIOUS
<1>1. {o \in schema : o[1] = table} = {o \in run.schema : o[1] = table}
  BY DEF Free
<1>2. object[1] = table
  OBVIOUS
<1> HIDE DEF object
<1> QED
  BY <1>1, <1>2

\* The seed program runs when no revision is in progress, and the reset returns
\* every stake before it removes the escrow account.
LEMMA ResetKeeps ==
    ASSUME MigrationsInv, reset_demo
    PROVE  MigrationsInv'
<1>1. /\ run = NoRun /\ UNCHANGED <<applied, schema, run>> /\ closed' = FALSE
      /\ system' = {"house_promo", "house_revenue"}
      /\ live' = [live EXCEPT !.stake = 0, !.entries = FALSE]
  BY DEF reset_demo
<1>2. live \in [mirror : {"none", "pending", "settled"}, stake : {0, 1}, entries : BOOLEAN]
  BY DEF MigrationsInv, LiveInv
<1>3. live' = [mirror |-> live.mirror, stake |-> 0, entries |-> FALSE] /\ Escrow \notin system'
  BY <1>1, <1>2 DEF Escrow
<1>4. LiveInv'
  BY <1>2, <1>3 DEF LiveInv
<1> QED
  BY <1>1, <1>4 DEF MigrationsInv

LEMMA PlaceKeeps ==
    ASSUME MigrationsInv, PlaceLive
    PROVE  MigrationsInv'
<1>1. /\ UNCHANGED <<applied, schema, system, closed, run>>
      /\ live' = [mirror |-> "pending", stake |-> 1, entries |-> TRUE]
      /\ Escrow \in system
      /\ Free({"accounts", "transfers", "entries", "livebets_bets"})
  BY DEF PlaceLive, Escrow
<1>2. LiveInv'
  BY <1>1 DEF MigrationsInv, LiveInv
<1>3. ASSUME run # NoRun
      PROVE  "0011_livebets" \in run.applied
  <2>1. <<"livebets_bets", "table">> \in schema
    BY <1>1 DEF Free
  <2>2. <<"livebets_bets", "table">> \in run.schema
    BY <1>1, <1>3, <2>1, FreeTables
  <2>3. BuiltBy(run.schema, run.applied) /\ run.applied \in SUBSET Revision
    BY <1>3 DEF MigrationsInv, RunInv
  <2> QED
    BY <2>2, <2>3, MadeBy, Makers, Parents
<1>4. run # NoRun => RunInv'
  BY <1>1, <1>3 DEF MigrationsInv, RunInv
<1> QED
  BY <1>1, <1>2, <1>4 DEF MigrationsInv

LEMMA SettleKeeps ==
    ASSUME MigrationsInv, SettleLive
    PROVE  MigrationsInv'
<1>1. /\ UNCHANGED <<applied, schema, system, closed, run>>
      /\ live' = [live EXCEPT !.mirror = "settled", !.stake = 0]
  BY DEF SettleLive
<1>2. LiveInv
  BY DEF MigrationsInv
<1>3. live' = [mirror |-> "settled", stake |-> 0, entries |-> live.entries]
  BY <1>1, <1>2 DEF LiveInv
<1>4. LiveInv'
  BY <1>1, <1>2, <1>3 DEF LiveInv
<1>5. RunInv => RunInv'
  BY <1>1, <1>3 DEF RunInv, Referenced
<1> QED
  BY <1>1, <1>4, <1>5 DEF MigrationsInv

LEMMA CloseKeeps ==
    ASSUME MigrationsInv, CloseBet
    PROVE  MigrationsInv'
<1>1. /\ UNCHANGED <<applied, schema, system, live, run>> /\ closed' = TRUE
      /\ SaleTime \in schema /\ Free({"bets"})
  BY DEF CloseBet, SaleTime
<1>2. run # NoRun => SaleTime \in run.schema
  BY <1>1, FreeTables DEF SaleTime
<1>3. run # NoRun => RunInv'
  BY <1>1, <1>2 DEF MigrationsInv, RunInv, Referenced
<1> QED
  BY <1>1, <1>3 DEF MigrationsInv, LiveInv

LEMMA MigrationsInvNext == MigrationsInv /\ [Next]_vars => MigrationsInv'
<1> SUFFICES ASSUME MigrationsInv, [Next]_vars
             PROVE  MigrationsInv'
  OBVIOUS
<1>1. ASSUME UNCHANGED migrations
      PROVE  MigrationsInv'
  BY <1>1 DEF migrations, schemaVars, MigrationsInv, LiveInv, RunInv, Referenced, BuiltBy, Lineal
<1>2. CASE Migrate
  BY <1>2, AlembicKeeps DEF Migrate
<1>3. CASE SeedStart \/ SeedStep \/ SeedReturn \/ SeedKilled
  BY <1>1, <1>3 DEF SeedStart, SeedStep, SeedReturn, SeedKilled
<1>4. CASE reset_demo
  BY <1>4, ResetKeeps
<1>5. CASE PlaceLive
  BY <1>5, PlaceKeeps
<1>6. CASE SettleLive
  BY <1>6, SettleKeeps
<1>7. CASE CloseBet
  BY <1>7, CloseKeeps
<1>8. CASE UNCHANGED vars
  BY <1>1, <1>8 DEF vars, migrations, schemaVars
<1> QED
  BY <1>2, <1>3, <1>4, <1>5, <1>6, <1>7, <1>8 DEF Next

LEMMA AlwaysMigrationsInv == Spec => []MigrationsInv
<1>1. Init => MigrationsInv
  BY MigrationsBegin DEF Init
<1> QED
  BY <1>1, MigrationsInvNext, PTL DEF Spec

\* Whatever was refused, raised or killed half-way, the database has exactly the
\* objects of the revisions that alembic_version names: a downgrade that drops a
\* table takes nothing with it that a revision still applied has made.
THEOREM SchemaFollowsRevision == Spec => []SchemaIsAtRevision
<1>1. MigrationsInv => SchemaIsAtRevision
  BY DEF MigrationsInv, BuiltBy, Extension, SchemaIsAtRevision
<1> QED
  BY <1>1, AlwaysMigrationsInv, PTL

\* No downgrade destroys a stake in escrow or the price at which a bet was sold.
THEOREM NothingOwedDropped == Spec => []NothingOwedIsDropped
<1>1. MigrationsInv => NothingOwedIsDropped
  BY DEF MigrationsInv, LiveInv, Escrow, SaleTime, NothingOwedIsDropped
<1> QED
  BY <1>1, AlwaysMigrationsInv, PTL

-----------------------------------------------------------------------------
\* The plan of the seed program.

Credited == {"user", "bonus", "recharge"}
Kinds == Credited \cup {"admin", "markets", "event", "history", "bet", "event_bet",
                        "resolution", "outcome"}
Names == Range(Players) \cup Range(Events) \cup Range(Bets) \cup Kinds
Transactions == [kind : Kinds, of : Names]

\* A part of the plan: it writes rows of these kinds, none of them twice.
IsPart(s, kinds) ==
    /\ s \in Seq(Transactions)
    /\ \A i, j \in 1..Len(s) : s[i] = s[j] => i = j
    /\ \A i \in 1..Len(s) : s[i].kind \in kinds

\* The place of the marker.
Marker == 3 * Len(Players) + 1

\* A beginning of the plan that contains the marker.
IsLaidOut(s, kinds) ==
    /\ IsPart(s, kinds)
    /\ Marker \in 1..Len(s) /\ s[Marker] = Admin
    /\ \A i \in 1..Len(s) : i < Marker => s[i].kind \in Credited

-----------------------------------------------------------------------------
\* Two parts of different kinds, one after the other.
LEMMA Concatenated ==
    ASSUME NEW s, NEW t, NEW K, NEW L, IsPart(s, K), IsPart(t, L), K \cap L = {}
    PROVE  /\ IsPart(s \o t, K \cup L)
           /\ Len(s \o t) = Len(s) + Len(t)
           /\ \A i \in 1..Len(s) : (s \o t)[i] = s[i]
           /\ \A i \in 1..(Len(s) + Len(t)) :
                 i > Len(s) => (i - Len(s)) \in 1..Len(t) /\ (s \o t)[i] = t[i - Len(s)]
<1> DEFINE u == s \o t
<1>1. s \in Seq(Transactions) /\ t \in Seq(Transactions)
  BY DEF IsPart
<1>2. u \in Seq(Transactions) /\ Len(u) = Len(s) + Len(t)
  BY <1>1
<1>3. \A i \in 1..Len(s) : u[i] = s[i]
  BY <1>1
<1>4. \A i \in 1..(Len(s) + Len(t)) :
        i > Len(s) => (i - Len(s)) \in 1..Len(t) /\ u[i] = t[i - Len(s)]
  BY <1>1
<1>5. Len(s) \in Nat /\ Len(t) \in Nat
  BY <1>1
<1>6. ASSUME NEW i \in 1..Len(u)
      PROVE  u[i].kind \in K \cup L /\ (i <= Len(s) <=> u[i].kind \in K)
  <2>1. CASE i <= Len(s)
    BY <1>2, <1>3, <1>5, <2>1 DEF IsPart
  <2>2. CASE i > Len(s)
    <3>1. (i - Len(s)) \in 1..Len(t) /\ u[i] = t[i - Len(s)]
      BY <1>2, <1>4, <2>2
    <3>2. u[i].kind \in L
      BY <3>1 DEF IsPart
    <3> QED
      BY <1>5, <2>2, <3>2
  <2> QED
    BY <1>5, <2>1, <2>2
<1>7. ASSUME NEW i \in 1..Len(u), NEW j \in 1..Len(u), u[i] = u[j]
      PROVE  i = j
  <2>1. i <= Len(s) <=> j <= Len(s)
    BY <1>6, <1>7
  <2>2. CASE i <= Len(s)
    BY <1>2, <1>3, <1>5, <1>7, <2>1, <2>2 DEF IsPart
  <2>3. CASE i > Len(s)
    <3>1. /\ (i - Len(s)) \in 1..Len(t) /\ u[i] = t[i - Len(s)]
          /\ (j - Len(s)) \in 1..Len(t) /\ u[j] = t[j - Len(s)]
      BY <1>2, <1>4, <1>5, <2>1, <2>3
    <3>2. i - Len(s) = j - Len(s)
      BY <1>7, <3>1 DEF IsPart
    <3> QED
      BY <1>5, <3>2
  <2> QED
    BY <1>5, <2>2, <2>3
<1>8. IsPart(u, K \cup L)
  BY <1>2, <1>6, <1>7 DEF IsPart
<1> QED
  BY <1>2, <1>3, <1>4, <1>8

\* What is added at the end leaves the marker where it is.
LEMMA Extended ==
    ASSUME NEW s, NEW t, NEW K, NEW L, IsLaidOut(s, K), IsPart(t, L), K \cap L = {}
    PROVE  IsLaidOut(s \o t, K \cup L)
<1> DEFINE u == s \o t
<1>1. /\ IsPart(u, K \cup L) /\ Len(u) = Len(s) + Len(t)
      /\ \A i \in 1..Len(s) : u[i] = s[i]
  BY Concatenated DEF IsLaidOut
<1>2. Len(s) \in Nat /\ Len(t) \in Nat
  BY DEF IsLaidOut, IsPart
<1>3. Marker \in 1..Len(s)
  BY DEF IsLaidOut
<1>4. Marker \in 1..Len(u) /\ u[Marker] = Admin
  BY <1>1, <1>2, <1>3 DEF IsLaidOut
<1>5. \A i \in 1..Len(u) : i < Marker => u[i].kind \in Credited
  <2> TAKE i \in 1..Len(u)
  <2> HAVE i < Marker
  <2>1. i \in 1..Len(s)
    BY <1>2, <1>3
  <2> QED
    BY <1>1, <2>1 DEF IsLaidOut
<1> QED
  BY <1>1, <1>4, <1>5 DEF IsLaidOut

\* One transaction for each name.
LEMMA OneForEach ==
    ASSUME NEW kind \in Kinds, NEW names, IsListOfNames(names), Range(names) \subseteq Names
    PROVE  IsPart(Each(kind, names), {kind})
<1> DEFINE s == Each(kind, names)
<1>1. DOMAIN names = 1..Len(names) /\ Len(names) \in Nat
  BY DEF IsListOfNames
<1>2. \A i \in 1..Len(names) : names[i] \in Names
  BY <1>1 DEF Range
<1>3. s = [i \in 1..Len(names) |-> [kind |-> kind, of |-> names[i]]]
  BY <1>1 DEF Each
<1>4. \A i \in 1..Len(names) : [kind |-> kind, of |-> names[i]] \in Transactions
  BY <1>2 DEF Transactions
<1>5. s \in Seq(Transactions) /\ Len(s) = Len(names)
  BY <1>1, <1>3, <1>4
<1>6. \A i, j \in 1..Len(names) : names[i] = names[j] => i = j
  BY <1>1 DEF IsListOfNames, IsInjective
<1> QED
  BY <1>3, <1>5, <1>6 DEF IsPart

\* One transaction by itself.
LEMMA JustOne ==
    ASSUME NEW kind \in Kinds
    PROVE  /\ IsPart(Once(kind), {kind}) /\ Len(Once(kind)) = 1
           /\ Once(kind)[1] = [kind |-> kind, of |-> kind]
  BY DEF IsPart, Once, Transactions, Names

\* A user's account and credits, for one user after the other.
LEMMA UsersFirst == IsPart(seed_users, Credited) /\ Len(seed_users) = 3 * Len(Players)
<1> DEFINE n == Len(Players)
           what(i) == <<"user", "bonus", "recharge">>[((i - 1) % 3) + 1]
           whose(i) == Players[((i - 1) \div 3) + 1]
<1>1. n \in Nat /\ DOMAIN Players = 1..n
  BY DemoSeedAssumption DEF IsListOfNames
<1>2. ASSUME NEW i \in 1..(3 * n)
      PROVE  /\ ((i - 1) % 3) \in 0..2 /\ ((i - 1) \div 3) + 1 \in 1..n
             /\ i - 1 = 3 * ((i - 1) \div 3) + ((i - 1) % 3)
  <2>1. i \in Int /\ 1 <= i /\ i <= 3 * n
    BY <1>1
  <2> QED
    BY <1>1, <2>1
<1>3. ASSUME NEW i \in 1..(3 * n)
      PROVE  what(i) \in Credited /\ whose(i) \in Range(Players)
  <2>1. whose(i) \in Range(Players)
    BY <1>1, <1>2 DEF Range
  <2>2. what(i) \in Credited
    BY <1>2 DEF Credited
  <2> QED
    BY <2>1, <2>2
<1>4. seed_users = [i \in 1..(3 * n) |-> [kind |-> what(i), of |-> whose(i)]]
  BY DEF seed_users
<1>5. \A i \in 1..(3 * n) : [kind |-> what(i), of |-> whose(i)] \in Transactions
  BY <1>3 DEF Transactions, Kinds, Names
<1>6. seed_users \in Seq(Transactions) /\ Len(seed_users) = 3 * n
  BY <1>1, <1>4, <1>5
<1>7. ASSUME NEW i \in 1..(3 * n), NEW j \in 1..(3 * n), what(i) = what(j), whose(i) = whose(j)
      PROVE  i = j
  <2>1. (i - 1) % 3 = (j - 1) % 3
    BY <1>2, <1>7
  <2>2. ((i - 1) \div 3) + 1 = ((j - 1) \div 3) + 1
    BY <1>1, <1>2, <1>7, DemoSeedAssumption DEF IsListOfNames, IsInjective
  <2> QED
    BY <1>2, <2>1, <2>2
<1>8. ASSUME NEW i \in 1..(3 * n)
      PROVE  seed_users[i].kind = what(i) /\ seed_users[i].of = whose(i)
  <2>1. seed_users[i] = [kind |-> what(i), of |-> whose(i)]
    BY <1>4
  <2> HIDE DEF what, whose
  <2> QED
    BY <2>1
<1>9. ASSUME NEW i \in 1..(3 * n), NEW j \in 1..(3 * n), seed_users[i] = seed_users[j]
      PROVE  i = j
  <2>1. what(i) = what(j) /\ whose(i) = whose(j)
    BY <1>8, <1>9
  <2> QED
    BY <1>7, <2>1
<1>10. ASSUME NEW i \in 1..(3 * n)
       PROVE  seed_users[i].kind \in Credited
  BY <1>3, <1>8
<1> QED
  BY <1>6, <1>9, <1>10 DEF IsPart

-----------------------------------------------------------------------------
\* The users, the marker, the rest: the whole plan.
LEMMA PlanIsLaidOut == IsLaidOut(Plan, Kinds)
<1> DEFINE s1 == seed_users \o seed_markets
           s2 == s1 \o seed_events
           s3 == s2 \o seed_odds_history
           s4 == s3 \o seed_bets
           s5 == s4 \o seed_event_bets
           s6 == s5 \o seed_resolutions
           s7 == s6 \o seed_event_resolutions
           K1 == Credited \cup {"admin", "markets"}
           K2 == K1 \cup {"event"}
           K3 == K2 \cup {"history"}
           K4 == K3 \cup {"bet"}
           K5 == K4 \cup {"event_bet"}
           K6 == K5 \cup {"resolution"}
<1>1. /\ IsPart(seed_markets, {"admin", "markets"}) /\ Len(seed_markets) = 2
      /\ seed_markets[1] = Admin
  <2>1. /\ IsPart(Once("admin"), {"admin"}) /\ IsPart(Once("markets"), {"markets"})
        /\ Len(Once("admin")) = 1 /\ Len(Once("markets")) = 1
        /\ Once("admin")[1] = Admin
    <3>1. "admin" \in Kinds /\ "markets" \in Kinds
      BY DEF Kinds
    <3>2. /\ IsPart(Once("admin"), {"admin"}) /\ Len(Once("admin")) = 1
          /\ Once("admin")[1] = [kind |-> "admin", of |-> "admin"]
      BY <3>1, JustOne
    <3>3. IsPart(Once("markets"), {"markets"}) /\ Len(Once("markets")) = 1
      BY <3>1, JustOne
    <3> QED
      BY <3>2, <3>3 DEF Admin
  <2>2. {"admin"} \cap {"markets"} = {}
    OBVIOUS
  <2>3. {"admin"} \cup {"markets"} = {"admin", "markets"}
    OBVIOUS
  <2>4. /\ IsPart(seed_markets, {"admin"} \cup {"markets"})
        /\ Len(seed_markets) = Len(Once("admin")) + Len(Once("markets"))
        /\ \A i \in 1..Len(Once("admin")) : seed_markets[i] = Once("admin")[i]
    BY <2>1, <2>2, Concatenated DEF seed_markets
  <2> QED
    BY <2>1, <2>3, <2>4
<1>2. IsLaidOut(s1, K1)
  <2>1. /\ IsPart(seed_users, Credited) /\ Len(seed_users) = Marker - 1
        /\ Marker \in Nat \ {0}
    BY UsersFirst, DemoSeedAssumption DEF Marker, IsListOfNames
  <2>2. Credited \cap {"admin", "markets"} = {}
    BY DEF Credited
  <2> HIDE DEF K1
  <2>3. /\ IsPart(s1, Credited \cup {"admin", "markets"})
        /\ Len(s1) = Len(seed_users) + Len(seed_markets)
        /\ \A i \in 1..Len(seed_users) : s1[i] = seed_users[i]
        /\ \A i \in 1..(Len(seed_users) + Len(seed_markets)) :
              i > Len(seed_users) => /\ (i - Len(seed_users)) \in 1..Len(seed_markets)
                                     /\ s1[i] = seed_markets[i - Len(seed_users)]
    BY <1>1, <2>1, <2>2, Concatenated
  <2> HIDE DEF s1
  <2>4. Len(s1) = Marker + 1 /\ s1[Marker] = Admin
    <3>1. Len(s1) = Marker + 1
      BY <1>1, <2>1, <2>3
    <3>2. s1[Marker] = seed_markets[Marker - Len(seed_users)]
      BY <1>1, <2>1, <2>3
    <3>3. Marker - Len(seed_users) = 1
      BY <2>1
    <3> QED
      BY <1>1, <3>1, <3>2, <3>3
  <2>5. \A i \in 1..Len(s1) : i < Marker => s1[i].kind \in Credited
    BY <2>1, <2>3, <2>4 DEF IsPart
  <2> QED
    BY <2>1, <2>3, <2>4, <2>5 DEF IsLaidOut, K1
<1>3. /\ IsPart(seed_events, {"event"}) /\ IsPart(seed_event_bets, {"event_bet"})
      /\ IsPart(seed_event_resolutions, {"outcome"})
  BY OneForEach, DemoSeedAssumption
  DEF seed_events, seed_event_bets, seed_event_resolutions, Kinds, Names
<1>4. IsPart(seed_bets, {"bet"})
  BY OneForEach, DemoSeedAssumption DEF seed_bets, Kinds, Names
<1>5. IsPart(seed_odds_history, {"history"}) /\ IsPart(seed_resolutions, {"resolution"})
  BY JustOne DEF seed_odds_history, seed_resolutions, Kinds
<1>6. IsLaidOut(s2, K2)
  <2>1. K1 \cap {"event"} = {}
    BY DEF Credited
  <2> HIDE DEF s1, K1
  <2> QED
    BY <1>2, <1>3, <2>1, Extended
<1>7. IsLaidOut(s3, K3)
  <2>1. K2 \cap {"history"} = {}
    BY DEF Credited
  <2> HIDE DEF s2, K2
  <2> QED
    BY <1>5, <1>6, <2>1, Extended
<1>8. IsLaidOut(s4, K4)
  <2>1. K3 \cap {"bet"} = {}
    BY DEF Credited
  <2> HIDE DEF s3, K3
  <2> QED
    BY <1>4, <1>7, <2>1, Extended
<1>9. IsLaidOut(s5, K5)
  <2>1. K4 \cap {"event_bet"} = {}
    BY DEF Credited
  <2> HIDE DEF s4, K4
  <2> QED
    BY <1>3, <1>8, <2>1, Extended
<1>10. IsLaidOut(s6, K6)
  <2>1. K5 \cap {"resolution"} = {}
    BY DEF Credited
  <2> HIDE DEF s5, K5
  <2> QED
    BY <1>5, <1>9, <2>1, Extended
<1>11. IsLaidOut(s7, K6 \cup {"outcome"})
  <2>1. K6 \cap {"outcome"} = {}
    BY DEF Credited
  <2> HIDE DEF s6, K6
  <2> QED
    BY <1>3, <1>10, <2>1, Extended
<1>12. s7 = Plan
  BY DEF Plan
<1>13. K6 \cup {"outcome"} = Kinds
  BY DEF Kinds, Credited
<1> QED
  BY <1>11, <1>12, <1>13

\* What the program relies on: no step is twice in the plan, and what comes before
\* the marker is of the kinds that a re-run finds again.
LEMMA PlanFacts ==
    /\ Len(Plan) \in Nat /\ DOMAIN Plan = 1..Len(Plan)
    /\ \A i, j \in 1..Len(Plan) : Plan[i] = Plan[j] => i = j
    /\ Marker \in 1..Len(Plan) /\ Plan[Marker] = Admin
    /\ \A i \in 1..Len(Plan) : i < Marker => Plan[i].kind \in Credited
<1>1. IsLaidOut(Plan, Kinds)
  BY PlanIsLaidOut
<1>2. Plan \in Seq(Transactions)
  BY <1>1 DEF IsLaidOut, IsPart
<1>3. Len(Plan) \in Nat /\ DOMAIN Plan = 1..Len(Plan)
  BY <1>2
<1> QED
  BY <1>1, <1>3 DEF IsLaidOut, IsPart

-----------------------------------------------------------------------------
\* The first k steps have been taken, once each.
Upto(k) ==
    /\ k \in 0..Len(Plan)
    /\ rows \in [Steps -> Nat]
    /\ \A i \in 1..Len(Plan) : rows[Plan[i]] = IF i <= k THEN 1 ELSE 0

\* Where the program stands.  A re-run goes over what is there before it goes on,
\* but only as long as the marker is not.
Stands(k) ==
    /\ seed \in [next : 1..(Len(Plan) + 1), wiped : BOOLEAN]
    /\ seed.next <= k + 1
    /\ k >= Marker => seed.next = k + 1
    /\ exit = "running"

Seeding(k) ==
    /\ Upto(k)
    /\ seed # NotSeeding => Stands(k)
    /\ exit = "ok" => k = Len(Plan)
    /\ exit # "raised"

SeedInv == \E k \in 0..Len(Plan) : Seeding(k)

\* One fact about the steps, one about the marker.
LEMMA StepsArePlanned ==
    /\ \A i \in 1..Len(Plan) : Plan[i] \in Steps
    /\ \A step \in Steps : \E i \in 1..Len(Plan) : step = Plan[i]
    /\ Admin \in Steps
  BY PlanFacts DEF Steps

LEMMA AtTheMarker ==
    ASSUME NEW k, Upto(k)
    PROVE  is_already_seeded <=> k >= Marker
  BY PlanFacts DEF Upto, is_already_seeded

\* Before anything is seeded, and after a reset.
LEMMA NothingYet ==
    ASSUME rows = [step \in Steps |-> 0]
    PROVE  Upto(0)
  BY StepsArePlanned, PlanFacts DEF Upto

\* The transaction of the step that comes next.
LEMMA SeedStepKeeps ==
    ASSUME NEW k \in 0..Len(Plan), Seeding(k), SeedStep
    PROVE  SeedInv'
<1> DEFINE n == seed.next
           step == Plan[n]
<1>1. seed # NotSeeding /\ n \in DOMAIN Plan /\ Stands(k) /\ Upto(k)
  BY DEF SeedStep, Seeding
<1>2. /\ n \in 1..Len(Plan) /\ n <= k + 1 /\ exit = "running"
      /\ k \in 0..Len(Plan) /\ Len(Plan) \in Nat /\ Marker \in 1..Len(Plan)
  BY <1>1, PlanFacts DEF Stands
<1>3. step \in Steps /\ rows \in [Steps -> Nat]
  BY <1>1, <1>2, StepsArePlanned DEF Upto
<1>4. rows[step] = IF n <= k THEN 1 ELSE 0
  BY <1>1, <1>2 DEF Upto
<1>5. CASE n <= k
  <2>1. n < Marker
    BY <1>1, <1>2, <1>5 DEF Stands
  <2>2. step.kind \in Credited
    BY <1>2, <2>1, PlanFacts
  <2>3. rows[step] = 1
    BY <1>4, <1>5
  <2>4. Reused(step) /\ ~Collides(step)
    BY <2>2, <2>3 DEF Reused, Collides, Credited
  <2>5. rows' = rows /\ seed' = [seed EXCEPT !.next = n + 1] /\ exit' = exit
    BY <2>4 DEF SeedStep, Written, NextStep
  <2>6. Upto(k)'
    BY <1>1, <2>5 DEF Upto
  <2>7. k < Marker
    BY <1>1, <1>2, <1>5 DEF Stands
  <2>8. Stands(k)'
    BY <1>1, <1>2, <1>5, <2>5, <2>7 DEF Stands
  <2>9. exit' = "running"
    BY <1>2, <2>5
  <2>10. Seeding(k)'
    BY <2>6, <2>8, <2>9 DEF Seeding
  <2> QED
    BY <2>10 DEF SeedInv
<1>6. CASE n = k + 1
  <2>1. rows[step] = 0
    BY <1>2, <1>4, <1>6
  <2>2. ~Reused(step) /\ ~Collides(step)
    BY <2>1 DEF Reused, Collides
  <2>3. /\ rows' = [rows EXCEPT ![step] = @ + 1]
        /\ seed' = [seed EXCEPT !.next = n + 1] /\ exit' = exit
    BY <2>2 DEF SeedStep, Written, NextStep
  <2>4. \A i \in 1..Len(Plan) : i # n => Plan[i] # step
    BY <1>2, PlanFacts
  <2>5. ASSUME NEW i \in 1..Len(Plan)
        PROVE  rows'[Plan[i]] = IF i <= k + 1 THEN 1 ELSE 0
    <3>1. CASE i = n
      BY <1>3, <1>6, <2>1, <2>3, <3>1
    <3>2. CASE i # n
      <4>1. rows'[Plan[i]] = rows[Plan[i]]
        BY <1>3, <2>3, <2>4, <3>2
      <4>2. i <= k + 1 <=> i <= k
        BY <1>2, <1>6, <3>2
      <4> QED
        BY <1>1, <4>1, <4>2 DEF Upto
    <3> QED
      BY <3>1, <3>2
  <2>6. rows' \in [Steps -> Nat]
    BY <1>3, <2>3
  <2>7. k + 1 \in 0..Len(Plan)
    BY <1>2, <1>6
  <2>8. Upto(k + 1)'
    BY <2>5, <2>6, <2>7 DEF Upto
  <2>9. Stands(k + 1)'
    BY <1>1, <1>2, <1>6, <2>3 DEF Stands
  <2>10. exit' = "running"
    BY <1>2, <2>3
  <2>11. Seeding(k + 1)'
    BY <2>8, <2>9, <2>10 DEF Seeding
  <2> QED
    BY <2>7, <2>11 DEF SeedInv
<1> QED
  BY <1>2, <1>5, <1>6

\* Every other step.
LEMMA SeedInvNext == SeedInv /\ [Next]_vars => SeedInv'
<1> SUFFICES ASSUME SeedInv, [Next]_vars
             PROVE  SeedInv'
  OBVIOUS
<1>1. PICK k \in 0..Len(Plan) : Seeding(k)
  BY DEF SeedInv
<1>2. Upto(k) /\ k \in 0..Len(Plan) /\ Len(Plan) \in Nat /\ Marker \in 1..Len(Plan)
  BY <1>1, PlanFacts DEF Seeding
<1>3. ASSUME UNCHANGED <<rows, seed, exit>>
      PROVE  SeedInv'
  BY <1>1, <1>3 DEF SeedInv, Seeding, Upto, Stands
<1>4. ASSUME SeedStart
      PROVE  SeedInv'
  <2>1. rows' = rows /\ seed = NotSeeding
    BY <1>4 DEF SeedStart
  <2>2. Upto(k)'
    BY <1>2, <2>1 DEF Upto
  <2>3. CASE is_already_seeded
    <3>1. exit' = "already_seeded" /\ seed' = NotSeeding
      BY <1>4, <2>1, <2>3 DEF SeedStart
    <3>2. Seeding(k)'
      BY <2>2, <3>1 DEF Seeding
    <3> QED
      BY <3>2 DEF SeedInv
  <2>4. CASE ~is_already_seeded
    <3>1. seed' = [next |-> 1, wiped |-> FALSE] /\ exit' = "running"
      BY <1>4, <2>4 DEF SeedStart, Begin
    <3>2. ~(k >= Marker)
      BY <1>2, <2>4, AtTheMarker
    <3>3. Stands(k)'
      BY <1>2, <3>1, <3>2 DEF Stands
    <3>4. Seeding(k)'
      BY <2>2, <3>1, <3>3 DEF Seeding
    <3> QED
      BY <3>4 DEF SeedInv
  <2> QED
    BY <2>3, <2>4
<1>5. ASSUME reset_demo
      PROVE  SeedInv'
  <2>1. rows' = [step \in Steps |-> 0]
    BY <1>5 DEF reset_demo, truncated
  <2>2. Upto(0)'
    <3>1. \A i \in 1..Len(Plan) : rows'[Plan[i]] = 0
      BY <2>1, StepsArePlanned
    <3>2. rows' \in [Steps -> Nat]
      BY <2>1
    <3> QED
      BY <1>2, <3>1, <3>2 DEF Upto
  <2>3. seed' = [next |-> 1, wiped |-> TRUE] /\ exit' = "running"
    BY <1>5 DEF reset_demo, Begin
  <2>4. Stands(0)'
    BY <1>2, <2>3 DEF Stands
  <2>5. Seeding(0)'
    BY <2>2, <2>3, <2>4 DEF Seeding
  <2> QED
    BY <1>2, <2>5 DEF SeedInv
<1>6. ASSUME SeedStep
      PROVE  SeedInv'
  BY <1>1, <1>6, SeedStepKeeps
<1>7. ASSUME SeedReturn
      PROVE  SeedInv'
  <2>1. rows' = rows /\ seed' = NotSeeding /\ exit' = "ok"
    BY <1>7 DEF SeedReturn, Ends
  <2>2. seed # NotSeeding /\ seed.next \notin 1..Len(Plan)
    BY <1>7, PlanFacts DEF SeedReturn
  <2>3. k = Len(Plan)
    BY <1>1, <1>2, <2>2 DEF Seeding, Stands
  <2>4. Upto(k)'
    BY <1>2, <2>1 DEF Upto
  <2>5. Seeding(k)'
    BY <2>1, <2>3, <2>4 DEF Seeding
  <2> QED
    BY <2>5 DEF SeedInv
<1>8. ASSUME SeedKilled
      PROVE  SeedInv'
  <2>1. rows' = rows /\ seed' = NotSeeding /\ exit' = "killed"
    BY <1>8 DEF SeedKilled, Ends
  <2>2. Upto(k)'
    BY <1>2, <2>1 DEF Upto
  <2>3. Seeding(k)'
    BY <2>1, <2>2 DEF Seeding
  <2> QED
    BY <2>3 DEF SeedInv
<1>9. CASE UNCHANGED vars
  BY <1>3, <1>9 DEF vars
<1>10. CASE Migrate
  BY <1>3, <1>10 DEF Migrate
<1>11. CASE PlaceLive \/ SettleLive \/ CloseBet
  BY <1>3, <1>11 DEF PlaceLive, SettleLive, CloseBet
<1> QED
  BY <1>4, <1>5, <1>6, <1>7, <1>8, <1>9, <1>10, <1>11 DEF Next

LEMMA AlwaysSeedInv == Spec => []SeedInv
<1>1. Init => SeedInv
  <2> SUFFICES ASSUME Init
               PROVE  SeedInv
    OBVIOUS
  <2>1. rows = [step \in Steps |-> 0] /\ seed = NotSeeding /\ exit = "none"
    BY DEF Init
  <2>2. Upto(0)
    BY <2>1, NothingYet
  <2>3. Seeding(0)
    BY <2>1, <2>2 DEF Seeding
  <2>4. 0 \in 0..Len(Plan)
    BY PlanFacts
  <2> QED
    BY <2>3, <2>4 DEF SeedInv
<1> QED
  BY <1>1, SeedInvNext, PTL DEF Spec

-----------------------------------------------------------------------------
\* However often the program is killed and run again, no user is credited twice and
\* nothing is in the database twice: the marker keeps a re-run away from what it
\* would write again, the e-mails and the idempotency keys take care of the rest.
THEOREM SeedsOnce == Spec => []NothingSeededTwice
<1>1. SeedInv => NothingSeededTwice
  <2> SUFFICES ASSUME SeedInv, NEW step \in Steps
               PROVE  rows[step] <= 1
    BY DEF NothingSeededTwice
  <2>1. PICK k \in 0..Len(Plan) : Upto(k)
    BY DEF SeedInv, Seeding
  <2>2. PICK i \in 1..Len(Plan) : step = Plan[i]
    BY StepsArePlanned
  <2> QED
    BY <2>1, <2>2 DEF Upto
<1> QED
  BY <1>1, AlwaysSeedInv, PTL

\* A run that reports success leaves every row of the plan, also when it finished
\* what earlier runs had begun.
THEOREM SuccessSeedsAll == Spec => []SuccessIsComplete
<1>1. SeedInv => SuccessIsComplete
  <2> SUFFICES ASSUME SeedInv, exit = "ok", NEW step \in Steps
               PROVE  rows[step] = 1
    BY DEF SuccessIsComplete
  <2>1. PICK k \in 0..Len(Plan) : Seeding(k)
    BY DEF SeedInv
  <2>2. k = Len(Plan) /\ Upto(k)
    BY <2>1 DEF Seeding
  <2>3. PICK i \in 1..Len(Plan) : step = Plan[i]
    BY StepsArePlanned
  <2> QED
    BY <2>2, <2>3, PlanFacts DEF Upto
<1> QED
  BY <1>1, AlwaysSeedInv, PTL

\* No run collides with a slug that an earlier run has left.
THEOREM NeverRaises == Spec => []NoRunRaises
<1>1. SeedInv => NoRunRaises
  BY DEF SeedInv, Seeding, NoRunRaises
<1> QED
  BY <1>1, AlwaysSeedInv, PTL
=============================================================================
