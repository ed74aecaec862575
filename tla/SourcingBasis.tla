---------------------------- MODULE SourcingBasis ----------------------------
(***************************************************************************)
(* What a case takes from the master data before it goes to market, and    *)
(* what it gives back after the award: the validation of the requisition   *)
(* (MaterialMasterValidationService), the price benchmark                  *)
(* (HistoricalProcurementService), the shortlist (SupplierShortlistService *)
(* and the people who change it), and the info records written back        *)
(* (PoRecommendationService.apply_info_record_proposal).                   *)
(*                                                                         *)
(* A session is one step: the database is SERIALIZABLE.  A case is its     *)
(* first line, the only one a shortlist is built for.                      *)
(***************************************************************************)
EXTENDS Naturals, Sequences, FiniteSets, FiniteSetsExt, Functions

CONSTANTS Cases, Vendors, Materials, Plants,
          Line,       \* the requisition line of each case
          Group,      \* materials of the same group
          Approved,   \* source list: <<material, plant, vendor>>
          Fixed,      \* those of them marked as fixed source
          History,    \* purchases, imported from the ERP system
          Curve,      \* price at a comparable order size: 0 when none
          Book,       \* price at a plant by the material master: 0 when none
          Score,      \* of the vendors: the ranking of the shortlist
          Rate,       \* base currency for a vendor's; 0: none on file
          Seeds,      \* the info records there are at first
          Prices,     \* bound: prices of awards, in the vendor's currency
          Limit,      \* max_suppliers_per_rfq
          TargetPct,  \* negotiation_target_savings_pct
          Fallible,   \* bound: vendors whose standing changes
          MaxEdits,   \* bound: changes people make to shortlists
          MaxAwards   \* bound: recommendations drafted

Nobody == "nobody"
NoCode == "no code"

Codes == Materials \cup {Line[c].code : c \in Cases}

\* code: as typed.  folded, part, like: the materials whose code differs in
\* case only, that bear the part number, that the search finds best; sure:
\* whether that search scores 0.90.  near: vendors whose profile is similar.
Lines == [code : STRING, folded : SUBSET Materials, part : SUBSET Materials,
          like : SUBSET Materials, sure : BOOLEAN, plant : Plants,
          spec : BOOLEAN, preferred : Vendors \cup {Nobody},
          near : SUBSET Vendors]

Purchases == [material : Materials, plant : Plants, vendor : Vendors,
              price : Nat \ {0}, recent : BOOLEAN]

\* An empty plant code on a record: it holds at every plant.
EveryPlant == ""

\* since: the award it comes from, 0 when it was there before.  next: the
\* record that superseded it, by position; 0 when none.
InfoRecord == [material : Codes, vendor : Vendors,
               plant : Plants \cup {EveryPlant}, price : Nat \ {0},
               since : Nat, active : BOOLEAN, next : Nat]

SameKey(a, b) ==
  a.material = b.material /\ a.vendor = b.vendor /\ a.plant = b.plant

ASSUME BasisAssumption ==
  /\ IsFiniteSet(Vendors) /\ IsFiniteSet(History)
  /\ EveryPlant \notin Plants
  /\ Line \in [Cases -> Lines]
  /\ \A c \in Cases : \A S \in {Line[c].folded, Line[c].like} :
       Cardinality(S) <= 1
  /\ Group \in [Materials -> SUBSET Materials]
  /\ Approved \subseteq Materials \X Plants \X Vendors
  /\ Fixed \subseteq Materials \X Plants \X Vendors
  /\ History \subseteq Purchases
  /\ Curve \in [Materials -> Nat]
  /\ Book \in [Materials -> [Plants -> Nat]]
  /\ Score \in [Vendors -> Nat] /\ IsInjective(Score)
  /\ Rate \in [Vendors -> Nat]
  /\ Seeds \in Seq(InfoRecord)
  /\ \A i, j \in DOMAIN Seeds :
       /\ Seeds[i].active /\ Seeds[i].next = 0 /\ Seeds[i].since = 0
       /\ i # j => ~SameKey(Seeds[i], Seeds[j])
  /\ Prices \subseteq Nat \ {0}
  /\ Limit \in Nat \ {0}
  /\ TargetPct \in 0..100
  /\ Fallible \subseteq Vendors
  /\ MaxEdits \in Nat
  /\ MaxAwards \in Nat

VARIABLES master,     \* what the material master says of each material
          fit,        \* vendors not blocked, and qualified
          stage,      \* how far the workflow of each case is
          bench,      \* the benchmark it has taken
          list,       \* the shortlist of each case
          edits,      \* changes people have made to shortlists
          proposals,  \* info records proposed, in the order of the awards
          book        \* info records, in the order they were made

basisVars == <<master, fit, stage, bench, list, edits, proposals, book>>

\* buyable: not on hold, obsolete or made in house, and in a known unit.
MasterRow == [buyable : BOOLEAN, plants : SUBSET Plants,
              described : BOOLEAN]

Stages == {"new", "engineering", "sourcing", "benchmarked", "listed",
           "failed"}

\* Prices in base currency; target in hundredths of it; 0 when there is none.
Benchmark == [reference : Nat, should : Nat, target : Nat]
NoBenchmark == [reference |-> 0, should |-> 0, target |-> 0]

ShortlistRow == [selected : BOOLEAN, by : {"AGENT", "PERSON", Nobody}]
NoRow == [selected |-> FALSE, by |-> Nobody]

\* existing: the record in force when it was made; record: what became of it.
Proposal == [case : Cases, material : Codes, vendor : Vendors,
             plant : Plants, price : Prices, existing : Nat, record : Nat]

BasisTypeOK ==
  /\ master \in [Materials -> MasterRow]
  /\ fit \in SUBSET Vendors
  /\ stage \in [Cases -> Stages]
  /\ bench \in [Cases -> Benchmark]
  /\ list \in [Cases -> [Vendors -> ShortlistRow]]
  /\ edits \in 0..MaxEdits
  /\ proposals \in Seq(Proposal)
  /\ book \in Seq(InfoRecord)
  /\ \A i \in DOMAIN proposals :
       /\ proposals[i].existing \in 0..Len(book)
       /\ proposals[i].record \in 0..Len(book)
  /\ \A k \in DOMAIN book : book[k].next \in {0} \cup (k + 1)..Len(book)

BasisInit ==
  /\ master \in [Materials -> {[buyable |-> TRUE, plants |-> Plants,
                                described |-> d] : d \in BOOLEAN}]
  /\ fit = Vendors
  /\ stage = [c \in Cases |-> "new"]
  /\ bench = [c \in Cases |-> NoBenchmark]
  /\ list = [c \in Cases |-> [v \in Vendors |-> NoRow]]
  /\ edits = 0
  /\ proposals = <<>>
  /\ book = Seeds

-----------------------------------------------------------------------------
(* The master data change *)

\* Engineering describes a material, or puts it on hold and back.
Engineering(m) ==
  /\ \/ master' = [master EXCEPT ![m].described = TRUE]
     \/ master' = [master EXCEPT ![m].buyable = ~@]
  /\ UNCHANGED <<fit, stage, bench, list, edits, proposals, book>>

\* A vendor is blocked or loses its qualification, or gets it back.
Standing(v) ==
  /\ fit' = IF v \in fit THEN fit \ {v} ELSE fit \cup {v}
  /\ UNCHANGED <<master, stage, bench, list, edits, proposals, book>>

-----------------------------------------------------------------------------
(* Validation *)

\* _resolve_material: the typed code, else the code in another case, else the
\* part number if it is one material's, else the best of the search.
Resolved(c) ==
  LET l == Line[c]
  IN IF l.code \in Materials THEN {l.code}
     ELSE IF l.folded # {} THEN l.folded
     ELSE IF l.part # {} THEN {m \in l.part : l.part = {m}}
     ELSE l.like

\* Anything but a search below 0.90 needs no confirmation.
Certain(c) ==
  \/ Line[c].code \in Materials
  \/ Line[c].folded \cup Line[c].part # {}
  \/ Line[c].sure

\* Bought, not on hold or obsolete, and asked for in a unit of the material.
Buyable(m) == master[m].buyable

\* The material is extended to the plant it is asked for.
Extended(c, m) == Line[c].plant \in master[m].plants

\* The requester attached a specification, or the master describes it.
Specified(c, m) == Line[c].spec \/ master[m].described

\* validate: nothing blocks the line, and engineering is not needed for it.  A
\* line without a material always needs engineering.
Sourceable(c) ==
  /\ Certain(c)
  /\ \E m \in Resolved(c) : Buyable(m) /\ Extended(c, m) /\ Specified(c, m)

\* validate_pr_activity, the first time.
Validate(c) ==
  /\ stage[c] = "new"
  /\ stage' = [stage EXCEPT
       ![c] = IF Sourceable(c) THEN "sourcing" ELSE "engineering"]
  /\ UNCHANGED <<master, fit, bench, list, edits, proposals, book>>

\* Somebody signals engineering_ready: it is asked once more.
Revalidate(c) ==
  /\ stage[c] = "engineering"
  /\ stage' = [stage EXCEPT
       ![c] = IF Sourceable(c) THEN "sourcing" ELSE "failed"]
  /\ UNCHANGED <<master, fit, bench, list, edits, proposals, book>>

-----------------------------------------------------------------------------
(* The benchmark *)

\* _to_base: a price without an exchange rate is taken as it is.
ToBase(r) == r.price * (IF Rate[r.vendor] = 0 THEN 1 ELSE Rate[r.vendor])

\* get_price_statistics: purchases of the last 36 months at the plant.
Window(code, plant) ==
  {h \in History : h.material = code /\ h.plant = plant /\ h.recent}

PricesOf(H) == {h.price : h \in H}

AtMost(H, p) == {h \in H : h.price <= p}

\* percentile of the prices: the middle one, without interpolation.
Median(H) ==
  LET half == Cardinality(H) \div 2
  IN CHOOSE p \in PricesOf(H) :
       /\ half < Cardinality(AtMost(H, p))
       /\ \A q \in PricesOf(H) : half < Cardinality(AtMost(H, q)) => p <= q

\* list_for_material: active at any plant, whether expired or not, and of any
\* vendor.
InForceFor(code) ==
  {book[k] : k \in {k \in DOMAIN book :
                      book[k].active /\ book[k].material = code}}

Cheapest(R) == Min({ToBase(r) : r \in R})

\* The price for the quantity, read off what was paid for others; 0 when too
\* little was bought for a curve.
CurvePrice(code) == Curve[code]

\* benchmark_unit_price: the first of these there is.
Reference(code, plant) ==
  LET H == Window(code, plant)
  IN IF InForceFor(code) # {} THEN Cheapest(InForceFor(code))
     ELSE IF code \notin Materials THEN 0
     ELSE IF H # {} /\ CurvePrice(code) > 0 THEN CurvePrice(code)
     ELSE IF H # {} THEN Median(H)
     ELSE Book[code][plant]

\* _compute_should_cost: the lowest price paid, or the curve if it is lower;
\* the 25th percentile never is the least of them.
ShouldCost(code, plant) ==
  LET H == Window(code, plant)
  IN IF H = {} THEN 0
     ELSE Min(PricesOf(H) \cup ({CurvePrice(code)} \ {0}))

\* build_benchmark, with _compute_target.  The code is the one typed.
BenchmarkOf(c) ==
  LET r == Reference(Line[c].code, Line[c].plant)
      s == ShouldCost(Line[c].code, Line[c].plant)
  IN IF r = 0 THEN [NoBenchmark EXCEPT !.should = s]
     ELSE [reference |-> r, should |-> s,
           target |-> Max({r * (100 - TargetPct), s * 100})]

\* build_benchmarks_activity.
TakeBenchmark(c) ==
  /\ stage[c] = "sourcing"
  /\ stage' = [stage EXCEPT ![c] = "benchmarked"]
  /\ bench' = [bench EXCEPT ![c] =
       IF Line[c].code = NoCode THEN @ ELSE BenchmarkOf(c)]
  /\ UNCHANGED <<master, fit, list, edits, proposals, book>>

-----------------------------------------------------------------------------
(* The shortlist *)

SuppliersOf(S) ==
  {h.vendor : h \in {h \in History : h.recent /\ h.material \in S}}

\* The source list, who delivered the material, who delivered its group, whose
\* profile is similar, and the vendor the requester named.
Candidates(c) ==
  LET l == Line[c]
  IN {v \in Vendors :
        \/ <<l.code, l.plant, v>> \in Approved
        \/ v \in SuppliersOf({l.code})
        \/ l.code \in Materials /\ v \in SuppliersOf(Group[l.code])
        \/ v \in l.near \cap fit
        \/ v = l.preferred}

FixedSource(c) ==
  {v \in Candidates(c) : <<Line[c].code, Line[c].plant, v>> \in Fixed}

\* _score, as far as it excludes: the blocked and the unqualified.
Able(c) == Candidates(c) \cap fit

\* build: the fixed source, whatever its standing, else the best of the able.
Chosen(c) ==
  IF FixedSource(c) # {} THEN {CHOOSE v \in FixedSource(c) : TRUE}
  ELSE {v \in Able(c) :
          Cardinality({w \in Able(c) : Score[w] > Score[v]}) < Limit}

\* Faulty variant: rows of an earlier list stay.
KeptAll(row) == row

\* Faulty variant: all rows that are not found again go.
KeptNone(row) == NoRow

\* replace_for_case: of the rows not found again those of people stay.
KeptRow(row) == IF row.by = "AGENT" THEN NoRow ELSE row

\* A row that is found again is selected as the agent says, also one a person
\* has decided about.
Rebuilt(c) ==
  [list EXCEPT ![c] = [v \in Vendors |->
     IF v \in Candidates(c)
     THEN [selected |-> v \in Chosen(c),
           by |-> IF list[c][v] = NoRow THEN "AGENT" ELSE list[c][v].by]
     ELSE KeptRow(list[c][v])]]

\* build_shortlist_activity: the workflow goes by what the agent has chosen.
Shortlist(c) ==
  /\ stage[c] = "benchmarked"
  /\ list' = Rebuilt(c)
  /\ stage' = [stage EXCEPT
       ![c] = IF Chosen(c) = {} THEN "failed" ELSE "listed"]
  /\ UNCHANGED <<master, fit, bench, edits, proposals, book>>

\* rebuild_shortlist, or the activity executed again.
Rebuild(c) ==
  /\ list' = Rebuilt(c)
  /\ UNCHANGED <<master, fit, stage, bench, edits, proposals, book>>

OnList(c) == {v \in Vendors : list[c][v] # NoRow}

\* A person's decision is signed when it changes something.
Decided(row, on) ==
  IF row.selected = on THEN row ELSE [selected |-> on, by |-> "PERSON"]

\* override_shortlist: these vendors and no others.
Select(c, S) ==
  /\ edits < MaxEdits
  /\ list' = [list EXCEPT ![c] = [v \in Vendors |->
       IF v \in OnList(c) THEN Decided(list[c][v], v \in S) ELSE NoRow]]
  /\ edits' = edits + 1
  /\ UNCHANGED <<master, fit, stage, bench, proposals, book>>

\* add_supplier, of any standing.
AddSupplier(c, v) ==
  /\ edits < MaxEdits
  /\ list' = [list EXCEPT ![c][v] = [selected |-> TRUE, by |-> "PERSON"]]
  /\ edits' = edits + 1
  /\ UNCHANGED <<master, fit, stage, bench, proposals, book>>

-----------------------------------------------------------------------------
(* The price is written back *)

\* A record for the material and vendor, at the plant or at every plant.
Covers(x, p) ==
  /\ x.material = p.material /\ x.vendor = p.vendor
  /\ x.plant \in {p.plant, EveryPlant}

\* get_active: of the records in force that cover the material, vendor and
\* plant the newest, whether or not it is for that plant alone.  It is never
\* asked without a plant: no requisition without one passes validation.
InForce(p) ==
  LET K == {k \in DOMAIN book : book[k].active /\ Covers(book[k], p)}
  IN IF K = {} THEN 0
     ELSE CHOOSE k \in K : \A o \in K : book[o].since <= book[k].since

\* draft, for an awarded vendor: _propose_info_records.
Propose(c, v, price) ==
  /\ stage[c] = "listed"
  /\ list[c][v].selected
  /\ Line[c].code # NoCode
  /\ Len(proposals) < MaxAwards
  /\ LET p == [case |-> c, material |-> Line[c].code, vendor |-> v,
               plant |-> Line[c].plant, price |-> price,
               existing |-> 0, record |-> 0]
     IN proposals' = Append(proposals, [p EXCEPT !.existing = InForce(p)])
  /\ UNCHANGED <<master, fit, stage, bench, list, edits, book>>

\* Faulty variant: the record remembered in the proposal is superseded.
ReplacedByRemembered(i) == proposals[i].existing

\* The record in force now, not the one of the proposal.
ReplacedBy(i) == InForce(proposals[i])

\* The row as supersede leaves it.
Retired(r, n) == [r EXCEPT !.active = FALSE, !.next = n]

Superseded(k, n) == [book EXCEPT ![k] = Retired(book[k], n)]

\* apply_info_record_proposal, by a person, whatever became of the award: a
\* second call for the same proposal does nothing.
Apply(i) ==
  /\ proposals[i].record = 0
  /\ LET p == proposals[i]
         k == ReplacedBy(i)
         n == Len(book) + 1
         new == [material |-> p.material, vendor |-> p.vendor,
                 plant |-> p.plant, price |-> p.price, since |-> i,
                 active |-> TRUE, next |-> 0]
     IN /\ book' = Append(IF k = 0 THEN book ELSE Superseded(k, n), new)
        /\ proposals' = [proposals EXCEPT ![i].record = n]
  /\ UNCHANGED <<master, fit, stage, bench, list, edits>>

-----------------------------------------------------------------------------
(* The system *)

BasisNext ==
  \/ \E m \in Materials : Engineering(m)
  \/ \E v \in Fallible : Standing(v)
  \/ \E c \in Cases :
       \/ Validate(c) \/ Revalidate(c)
       \/ TakeBenchmark(c)
       \/ Shortlist(c) \/ Rebuild(c)
       \/ \E S \in SUBSET OnList(c) : Select(c, S)
       \/ \E v \in Vendors :
            \/ AddSupplier(c, v)
            \/ \E price \in Prices : Propose(c, v, price)
  \/ \E i \in DOMAIN proposals : Apply(i)

BasisSpec == BasisInit /\ [][BasisNext]_basisVars

-----------------------------------------------------------------------------
(* Properties *)

\* Records made of awards: the others were there before.
WrittenBack == (Len(Seeds) + 1)..Len(book)

\* However the proposals of several cases and of repeated drafts are applied,
\* in whatever order: of the prices written back for a material, vendor and
\* plant at most one is in force; a record goes out of force only for one that
\* it covered, and no two for the same.
PricesFollowAwards ==
  /\ \A i, j \in WrittenBack :
       i # j /\ SameKey(book[i], book[j]) =>
         ~(book[i].active /\ book[j].active)
  /\ \A i \in DOMAIN book :
       /\ book[i].active <=> book[i].next = 0
       /\ ~book[i].active =>
            /\ Covers(book[i], book[book[i].next])
            /\ \A j \in DOMAIN book \ {i} : book[i].next # book[j].next

\* The agent's own choice never exceeds max_suppliers_per_rfq, also after
\* rebuilds with other vendors in good standing and after people's changes:
\* nothing of an earlier list stays selected in its name.
AgentKeepsToTheLimit ==
  \A c \in Cases :
    Cardinality({v \in Vendors :
      list[c][v] = [selected |-> TRUE, by |-> "AGENT"]}) <= Limit

\* Rebuilding the list never takes a vendor off it that a person put on it or
\* decided about: the row stays, and stays the person's.
PersonsRowsStay ==
  [][\A c \in Cases, v \in Vendors :
       list[c][v].by = "PERSON" => list'[c][v].by = "PERSON"]_basisVars

-----------------------------------------------------------------------------
(* What the documents and comments say and the code does not keep: each of   *)
(* these fails.                                                              *)

\* "Resolved to ..": the benchmark of a line that was resolved is that of its
\* material.
ResolvedCodeIsSourced ==
  \A c \in Cases : \A m \in Resolved(c) :
    stage[c] = "benchmarked" /\ (\E k \in DOMAIN book :
       book[k].active /\ book[k].material = m /\ k <= Len(Seeds))
         => bench[c].reference > 0

\* "no score can rescue a blocked supplier": the agent selects nobody who is
\* blocked.
BlockedIsNotChosen ==
  [][\A c \in Cases, v \in Vendors :
       list'[c][v].selected /\ ~list[c][v].selected /\ edits' = edits
         => v \in fit]_basisVars

\* A buyer may "override it with a reason": what a person decided stands until
\* a person changes it.
OverrideStands ==
  [][\A c \in Cases, v \in Vendors :
       list[c][v].by = "PERSON" /\ list'[c][v] # list[c][v]
         => edits' # edits]_basisVars

\* "manual sourcing is required": a case with suppliers a person sourced does
\* not fail.
ManualSourcingCounts ==
  [][\A c \in Cases :
       stage[c] = "benchmarked" /\ stage'[c] = "failed"
         => \A v \in Vendors : list[c][v].by # "PERSON"]_basisVars

\* "or approve a free-text purchase with a specification".
FreeTextCanBeBought ==
  \A c \in Cases : Line[c].spec /\ Resolved(c) = {} => stage[c] # "failed"

\* "Never target below the demonstrated floor": the lowest price paid.
TargetIsNotBelowPaid ==
  \A c \in Cases : \A p \in PricesOf(Window(Line[c].code, Line[c].plant)) :
    bench[c].target > 0 =>
      \E q \in PricesOf(Window(Line[c].code, Line[c].plant)) :
        q <= p /\ bench[c].target >= 100 * q

\* A target to negotiate towards is below the price the company has.
TargetSaves ==
  \A c \in Cases : bench[c].target <= 100 * bench[c].reference

\* "It is converted before it can influence a target price": the reference
\* that rests on an info record is a price some exchange rate has converted.
ReferenceIsConverted ==
  [][\A c \in Cases :
       bench'[c] # bench[c] /\ InForceFor(Line[c].code) # {} =>
         \E r \in InForceFor(Line[c].code) :
           Rate[r.vendor] > 0 /\ bench'[c].reference = ToBase(r)]_basisVars

\* "The agreed material/vendor price": there is one at a plant.  What is
\* written back takes the newest record out of force, and no other.
OneAgreedPrice ==
  \A i, j \in DOMAIN book :
    SameKey(book[i], book[j]) /\ book[i].active /\ book[j].active => i = j

\* The record in force is that of the latest award applied.
NewestPriceIsInForce ==
  \A i, j \in DOMAIN book :
    SameKey(book[i], book[j]) /\ book[i].active
      => book[i].since >= book[j].since
=============================================================================
