----------------------------- MODULE GoldTables -----------------------------
(***************************************************************************)
(* The Gold tables of Stage 1, derived from the rows that have arrived in  *)
(* Bronze, by the two programs that derive them: the pure Python one       *)
(* (stage1_evidence_job.py) and the Spark job, which also reads the price  *)
(* events of the stream.  Rows arrive late, are restated and are dropped   *)
(* when a required figure is missing; the tables are functions of Bronze.  *)
(*                                                                         *)
(* Abstractions: one company.  A quarter is its index (year * 4 + quarter),*)
(* a moment is an integer, two per day: even at midnight (daily rows), odd *)
(* within the day (price events).  The tracked company fields but the      *)
(* delisted flag are one value.  Exact arithmetic stands for decimals and  *)
(* doubles.  Prices and snapshots have the types of their contracts.  Two  *)
(* versions of a row with one created_ts are copies, as the sources make   *)
(* them.                                                                   *)
(***************************************************************************)
EXTENDS Integers, FiniteSets

CONSTANTS
  Quarters,     \* report periods
  Release,      \* when each quarter's statement was released
  Profiles,     \* what a statement may carry
  Moments,      \* event times of prices
  Versions,     \* values of created_ts
  Attributes,   \* values of industry, sector and exchange, Null included
  Null,
  MaxRows       \* bound: rows that arrive in Bronze

\* The figures of a statement; dated tells whether it has an event_timestamp, conforms
\* whether its other fields have the types and enum values of the contract.
Figure == Int \cup {Null}
Figures == [dated : BOOLEAN, conforms : BOOLEAN, total_assets : Figure,
            total_liabilities : Figure, equity : Figure, current_assets : Figure, current_liabilities : Figure,
            retained_earnings : Figure, ebit : Figure, interest_expense : Figure,
            net_income : Figure]

ASSUME GoldAssumption ==
  /\ Quarters \subseteq Int /\ Moments \subseteq Nat /\ Versions \subseteq Nat
  /\ Release \in [Quarters -> Nat] /\ MaxRows \in Nat
  /\ Profiles \subseteq Figures
  /\ Null \notin Int \cup (Int \X Int)

VARIABLES statements, prices, companies

goldVars == <<statements, prices, companies>>

Day(t) == t \div 2
Newest(rows) == CHOOSE r \in rows : \A s \in rows : s.created_ts <= r.created_ts

-----------------------------------------------------------------------------
(* Bronze to Silver.                                                       *)

\* Rows without a required figure go to the failed records.
align_to_schema(rows) ==
  {r \in rows : Null \notin {r.figures.total_assets, r.figures.total_liabilities,
                             r.figures.equity}}

\* The Python program passes the field types and enum values of the contract, too, the
\* Spark job does not.
validate_row(rows) == {r \in align_to_schema(rows) : r.figures.conforms}

\* key gives every row its business key.
deduplicate_latest(key) ==
  {r \in DOMAIN key : \A s \in DOMAIN key : key[s] = key[r] => s.created_ts <= r.created_ts}

\* row_number() = 1 over created_ts descending: the same row when no two differ in
\* content only.
bronze_to_silver_spark(key) ==
  {Newest({s \in DOMAIN key : key[s] = key[r]}) : r \in DOMAIN key}

Period(r) == r.report_period
TradingDate(p) == Day(p.event_timestamp)
ByPeriod(rows) == [r \in rows |-> Period(r)]
ByTradingDate(rows) == [p \in rows |-> TradingDate(p)]

\* The fact rows carry the columns of the statements' contract: no sector among them.
Fact(r) ==
  LET figures == r.figures
  IN  [report_period |-> r.report_period, created_ts |-> r.created_ts,
       report_release_date |-> Release[r.report_period],
       event_timestamp |-> r.event_timestamp,
       total_assets |-> figures.total_assets, equity |-> figures.equity,
       total_liabilities |-> figures.total_liabilities,
       current_assets |-> figures.current_assets,
       current_liabilities |-> figures.current_liabilities,
       retained_earnings |-> figures.retained_earnings, ebit |-> figures.ebit,
       interest_expense |-> figures.interest_expense, net_income |-> figures.net_income]

PythonFacts(rows) == {Fact(r) : r \in deduplicate_latest(ByPeriod(validate_row(rows)))}
SparkFacts(rows) == {Fact(r) : r \in bronze_to_silver_spark(ByPeriod(align_to_schema(rows)))}

-----------------------------------------------------------------------------
(* Ratios.  The programs differ in the denominators they divide by, the    *)
(* parameter over of what follows.                                         *)

PythonDenominators == Int \ {0}
SparkDenominators == Nat \ {0}
Divides(n, d, over) == n # Null /\ d # Null /\ d \in over

\* n / d < a / b, for b > 0 and d of either sign.
Below(n, d, a, b) == (n * b - a * d) * d < 0
Above(n, d, a, b) == (n * b - a * d) * d > 0

RoundHalfUp(n, d) ==
  LET sign == IF (n < 0) = (d < 0) THEN 1 ELSE -1
      Abs(i) == IF i < 0 THEN -i ELSE i
  IN  sign * ((2 * Abs(n) + Abs(d)) \div (2 * Abs(d)))

\* Altman's Z'' in units of 0.0001; X4 is capped at 99 when there are no liabilities.
Z(f, over) ==
  LET ta == f.total_assets
      tl == f.total_liabilities
      sum == 656 * (f.current_assets - f.current_liabilities)
             + 326 * f.retained_earnings + 672 * f.ebit
  IN  IF \/ Null \in {f.current_assets, f.current_liabilities, f.retained_earnings, f.ebit}
         \/ ~Divides(f.ebit, ta, over)
      THEN Null
      ELSE IF tl = 0 THEN RoundHalfUp(100 * (sum + 105 * 99 * ta), ta)
                     ELSE RoundHalfUp(100 * (sum * tl + 105 * f.equity * ta), ta * tl)

DistressZone == 11000
SafeZone == 26000

Loss(f) == f.net_income # Null /\ f.net_income < 0

\* Mutant: the observed row need not be the quarter before.
LossBefore(f, prev) == \E p \in prev : Loss(f) /\ Loss(p)

\* prev is the set holding the observed row before f, or empty.
two_quarter_net_loss(f, prev) ==
  \E p \in prev : f.report_period - p.report_period = 1 /\ Loss(f) /\ Loss(p)

\* The warnings that fire.
Warnings(f, prev, over) ==
  {w \in {"high_debt_to_asset", "low_current_ratio", "two_quarter_net_loss",
          "negative_equity", "weak_interest_coverage"} :
    CASE w = "high_debt_to_asset" ->
           /\ Divides(f.total_liabilities, f.total_assets, over)
           /\ Above(f.total_liabilities, f.total_assets, 8, 10)
      [] w = "low_current_ratio" ->
           /\ Divides(f.current_assets, f.current_liabilities, over)
           /\ Below(f.current_assets, f.current_liabilities, 1, 1)
      [] w = "two_quarter_net_loss" -> two_quarter_net_loss(f, prev)
      [] w = "negative_equity" -> f.equity < 0
      [] w = "weak_interest_coverage" ->
           /\ Divides(f.ebit, f.interest_expense, over)
           /\ Below(f.ebit, f.interest_expense, 1, 1)}

z_double_prime(f) == Z(f, PythonDenominators)
warning_rules(f, prev) == Warnings(f, prev, PythonDenominators)

-----------------------------------------------------------------------------
(* Labels.                                                                 *)

FinancialSectors == {"banks", "insurance", "securities", "diversified financials",
                     "financial services"}

\* Columns the fact rows do not have.
SectorTexts == {"sector", "industry", "gics_sector", "gics_industry_group"}
SectorCodes == {"gics_sector_code", "gics_code"}

\* A text is one of the policy's, or a code (its first two digits for gics_code) is.
is_financial_sector(f) ==
  \/ \E c \in SectorTexts \cap DOMAIN f : f[c] \in FinancialSectors
  \/ \E c \in SectorCodes \cap DOMAIN f : f[c] \in {"40", "4010", "4020", "4030"}

\* A text contains one of the job's own terms, shorter ones among them; codes do not count.
is_fin(f) ==
  \E c \in SectorTexts \cap DOMAIN f :
    f[c] \in FinancialSectors \cup {"banking", "insurers", "brokerage", "investment banks"}

Label(label, confidence, z, reasons) ==
  [distress_label |-> label, label_confidence |-> confidence, z_score |-> z,
   training_eligible |-> confidence \in {"high", "medium"}, distress_reason |-> reasons]

Excluded == Label(Null, Null, Null, {"financial_sector_excluded"})

Capped(f, z) ==
  IF f.total_liabilities = 0 /\ z # Null THEN {"zero_liabilities_x4_capped"} ELSE {}

compute_distress_label(f, prev) ==
  LET z == z_double_prime(f)
      warnings == warning_rules(f, prev)
      many == Cardinality(warnings) >= 2
      Reasons(zone) == warnings \cup zone \cup Capped(f, z)
  IN  IF is_financial_sector(f) THEN Excluded
      ELSE CASE z = Null /\ many -> Label(1, "medium", z, Reasons({"z_score_null"}))
             [] z = Null /\ ~many -> Label(Null, Null, z, Reasons({"insufficient_data"}))
             [] z # Null /\ z < DistressZone ->
                  Label(1, "high", z, Reasons({"z_score_distress_zone"}))
             [] z # Null /\ z >= DistressZone /\ many -> Label(1, "medium", z, Reasons({}))
             [] z # Null /\ z > SafeZone /\ ~many ->
                  Label(0, "high", z, Reasons({"z_score_safe_zone"}))
             [] OTHER -> Label(0, "low", z, Reasons({"gray_zone_monitor"}))

\* The last observed row before f, whatever its quarter: the last one of the sort, or
\* lag() over report_period.
Previous(facts, f) ==
  LET earlier == {g \in facts : g.report_period < f.report_period}
  IN  {g \in earlier : \A h \in earlier : h.report_period <= g.report_period}

compute_labels(facts) ==
  [q \in {f.report_period : f \in facts} |->
     LET f == CHOOSE g \in facts : g.report_period = q
     IN  compute_distress_label(f, Previous(facts, f))]

\* Columns instead of branches: the reasons are filtered one by one, and the gray zone is
\* whatever is neither the distress nor the safe zone.
spark_label(f, prev) ==
  LET z == Z(f, SparkDenominators)
      warnings == Warnings(f, prev, SparkDenominators)
      many == Cardinality(warnings) >= 2
      distress == z # Null /\ z < DistressZone
      safe == z # Null /\ z > SafeZone /\ ~many
      zone == (IF distress THEN {"z_score_distress_zone"} ELSE {})
              \cup (IF safe THEN {"z_score_safe_zone"} ELSE {})
              \cup (IF z # Null /\ ~distress /\ ~safe THEN {"gray_zone_monitor"} ELSE {})
              \cup (IF z = Null /\ many THEN {"z_score_null"} ELSE {})
              \cup (IF z = Null /\ ~many THEN {"insufficient_data"} ELSE {})
      label == IF distress \/ many THEN 1 ELSE IF z = Null THEN Null ELSE 0
      confidence == IF distress \/ safe THEN "high"
                    ELSE IF many THEN "medium"
                    ELSE IF z = Null THEN Null ELSE "low"
  IN  IF is_fin(f) THEN Excluded
      ELSE Label(label, confidence, z, warnings \cup zone \cup Capped(f, z))

compute_labels_spark(facts) ==
  [q \in {f.report_period : f \in facts} |->
     LET f == CHOOSE g \in facts : g.report_period = q
     IN  spark_label(f, Previous(facts, f))]

-----------------------------------------------------------------------------
(* The ratios of the company-quarter table, as fractions; it also copies   *)
(* the label.                                                              *)

Ratio(n, d, over) == IF Divides(n, d, over) THEN <<n, d>> ELSE Null

Ratios(f, over) ==
  [current_ratio |-> Ratio(f.current_assets, f.current_liabilities, over),
   debt_to_asset |-> Ratio(f.total_liabilities, f.total_assets, over),
   debt_to_equity |-> Ratio(f.total_liabilities, f.equity, over),
   roa |-> Ratio(f.net_income, f.total_assets, over),
   roe |-> Ratio(f.net_income, f.equity, over),
   ebit_interest_coverage |-> Ratio(f.ebit, f.interest_expense, over)]

build_obt_company_quarter_risk(facts) ==
  {[fact |-> f, ratios |-> Ratios(f, PythonDenominators)] : f \in facts}

build_obt_company_quarter_risk_spark(facts) ==
  {[fact |-> f, ratios |-> Ratios(f, SparkDenominators)] : f \in facts}

-----------------------------------------------------------------------------
(* Market facts and the point-in-time join.                                *)

Daily(rows) == {p \in rows : p.event_timestamp % 2 = 0}

\* The Python program reads the daily rows only.
PythonMarket(rows) == deduplicate_latest(ByTradingDate(Daily(rows)))

\* Mutant: created_ts in ascending order.
OldestPrices(rows) ==
  {p \in rows : \A o \in rows : TradingDate(o) = TradingDate(p)
                                => p.created_ts <= o.created_ts}

\* Daily rows and price events compete for a day by created_ts.
SparkMarket(rows) == bronze_to_silver_spark(ByTradingDate(rows))

\* The newest market fact not after t, as a set that may be empty.
pit_join_features(market, t) ==
  {p \in market : /\ p.event_timestamp <= t
                  /\ \A o \in market : o.event_timestamp <= t
                                        => o.event_timestamp <= p.event_timestamp}

build_feat_company_unified(facts, market) ==
  [q \in {f.report_period : f \in facts} |->
     pit_join_features(market, (CHOOSE f \in facts : f.report_period = q).report_release_date)]

\* Joins on event_timestamp: a row without one gets no market feature.
build_feat_company_unified_spark(facts, market) ==
  [q \in {f.report_period : f \in facts} |->
     LET t == (CHOOSE f \in facts : f.report_period = q).event_timestamp
     IN  IF t = Null THEN {} ELSE pit_join_features(market, t)]

PythonFeatures(rows, market) ==
  build_feat_company_unified(PythonFacts(rows), PythonMarket(market))
SparkFeatures(rows, market) ==
  build_feat_company_unified_spark(SparkFacts(rows), SparkMarket(market))

\* The gate of the feature pipeline: no feature newer than the row it describes.
validate_feature_snapshot(features, t) == \A p \in features : p.event_timestamp <= t

-----------------------------------------------------------------------------
(* The company dimension.                                                  *)

Before(rows, r) == {s \in rows : s.created_ts < r.created_ts}

\* The rows that open a version, given what counts as a change.
Opening(rows, Changed(_, _)) ==
  {r \in rows : LET before == Before(rows, r)
                IN  before = {} \/ Changed(Newest(before), r)}

Later(opens, r) == {s \in opens : s.created_ts > r.created_ts}
Following(opens, r) ==
  CHOOSE s \in Later(opens, r) : \A o \in Later(opens, r) : s.created_ts <= o.created_ts

\* A version stores a missing flag as FALSE.
Flag(value) == IF value = Null THEN FALSE ELSE value

\* Each version is valid until the next one opens.
Version(opens, r) ==
  [attributes |-> r.attributes, delisted_flag |-> Flag(r.delisted_flag),
   valid_from_ts |-> r.created_ts,
   valid_to_ts |-> IF Later(opens, r) = {} THEN Null ELSE Following(opens, r).created_ts,
   is_current |-> Later(opens, r) = {}]

Versioned(opens) == {Version(opens, r) : r \in opens}

\* Mutant: a field that becomes null does not count as changed.
MergeWithoutNulls(rows) ==
  Versioned(Opening(rows, LAMBDA prev, r :
    \/ r.attributes # Null /\ prev.attributes # r.attributes
    \/ Flag(prev.delisted_flag) # r.delisted_flag))

\* Compares what the current version stores with what the snapshot says: a snapshot
\* without a flag always opens a version.
merge_dim_company(rows) ==
  Versioned(Opening(rows, LAMBDA prev, r :
    \/ prev.attributes # r.attributes
    \/ Flag(prev.delisted_flag) # r.delisted_flag))

\* Compares two snapshots.  A null on the earlier side counts as a change; a comparison
\* with a null on the later side is null, and filters the row out unless another field
\* has changed.
SparkChanged(earlier, later) ==
  earlier = Null \/ (later # Null /\ earlier # later)

build_dim_company_spark(rows) ==
  Versioned(Opening(rows, LAMBDA prev, r :
    \/ SparkChanged(prev.attributes, r.attributes)
    \/ SparkChanged(prev.delisted_flag, r.delisted_flag)))

-----------------------------------------------------------------------------
(* Rows arrive.                                                            *)

GoldInit == statements = {} /\ prices = {} /\ companies = {}

Room == Cardinality(statements) + Cardinality(prices) + Cardinality(companies) < MaxRows

StatementArrives(q, v, figures) ==
  /\ \A r \in statements : r.report_period # q \/ r.created_ts # v
  /\ statements' = statements \cup
       {[report_period |-> q, created_ts |-> v, figures |-> figures,
         event_timestamp |-> IF figures.dated THEN Release[q] ELSE Null]}
  /\ UNCHANGED <<prices, companies>>

PriceArrives(t, v) ==
  /\ \A p \in prices : TradingDate(p) # Day(t) \/ p.created_ts # v
  /\ prices' = prices \cup {[event_timestamp |-> t, created_ts |-> v]}
  /\ UNCHANGED <<statements, companies>>

SnapshotArrives(v, attributes, flag) ==
  /\ \A c \in companies : c.created_ts # v
  /\ companies' = companies \cup
       {[created_ts |-> v, attributes |-> attributes, delisted_flag |-> flag]}
  /\ UNCHANGED <<statements, prices>>

GoldNext ==
  /\ Room
  /\ \/ \E q \in Quarters, v \in Versions, figures \in Profiles :
          StatementArrives(q, v, figures)
     \/ \E t \in Moments, v \in Versions : PriceArrives(t, v)
     \/ \E v \in Versions, attributes \in Attributes, flag \in BOOLEAN \cup {Null} :
          SnapshotArrives(v, attributes, flag)

GoldSpec == GoldInit /\ [][GoldNext]_goldVars

-----------------------------------------------------------------------------
(* Properties.                                                             *)

\* Python's Silver turns no row away that Spark's keeps.
Conforming == validate_row(statements) = align_to_schema(statements)

DivisorsNotNegative(f) ==
  /\ f.total_assets > 0
  /\ \A d \in {f.current_liabilities, f.interest_expense} : d = Null \/ d >= 0

\* The label with the reason the Spark job adds.
AlsoGray(l) ==
  IF l.label_confidence = "medium" /\ l.z_score # Null
  THEN [l EXCEPT !.distress_reason = @ \cup {"gray_zone_monitor"}] ELSE l

\* Both programs label alike as long as no row breaks the types of its contract and no
\* denominator is negative, except that the Spark job also says "gray zone" of a row its
\* warnings put in distress.
LabelsAgree ==
  Conforming =>
    LET python == compute_labels(PythonFacts(statements))
        spark == compute_labels_spark(SparkFacts(statements))
    IN  \A f \in PythonFacts(statements) :
          DivisorsNotNegative(f) => spark[Period(f)] = AlsoGray(python[Period(f)])

\* A ratio differs only where its denominator is negative: the Spark job leaves it out.
RatiosAgree ==
  \A p \in build_obt_company_quarter_risk(PythonFacts(statements)),
     s \in build_obt_company_quarter_risk_spark(SparkFacts(statements)) :
    p.fact = s.fact => \A n \in DOMAIN p.ratios :
      s.ratios[n] = IF p.ratios[n] # Null /\ p.ratios[n][2] < 0 THEN Null ELSE p.ratios[n]

FeaturesAgree ==
  Conforming /\ prices = Daily(prices) =>
    \A f \in PythonFacts(statements) : f.event_timestamp # Null =>
      PythonFeatures(statements, prices)[Period(f)] = SparkFeatures(statements, prices)[Period(f)]

DimsAgree ==
  (\A c \in companies : Null \notin {c.attributes, c.delisted_flag}) =>
    merge_dim_company(companies) = build_dim_company_spark(companies)

\* The two programs that build the same Gold tables (build_evidence_payload and
\* run_stage1_spark_lakehouse) disagree only on the named inputs, in whatever order
\* statements, restatements, prices and snapshots reach Bronze.
PipelinesAgree == LabelsAgree /\ RatiosAgree /\ FeaturesAgree /\ DimsAgree

\* A quarter's label is the one the rows of that quarter and the one
\* before give alone, and its feature the one the prices up to the day of its release give
\* alone, whatever else has arrived (compute_labels, pit_join_features and their Spark
\* counterparts).
QuartersStandAlone ==
  \A q \in Quarters :
    LET near == {r \in statements : Period(r) \in {q - 1, q}}
        sofar == {p \in prices : TradingDate(p) <= Day(Release[q])}
        Of(facts) == \E f \in facts : Period(f) = q
    IN  /\ Of(PythonFacts(statements)) =>
             /\ compute_labels(PythonFacts(statements))[q] = compute_labels(PythonFacts(near))[q]
             /\ PythonFeatures(statements, prices)[q] = PythonFeatures(near, sofar)[q]
        /\ Of(SparkFacts(statements)) =>
             /\ compute_labels_spark(SparkFacts(statements))[q]
                  = compute_labels_spark(SparkFacts(near))[q]
             /\ SparkFeatures(statements, prices)[q] = SparkFeatures(near, sofar)[q]

\* The leakage gate of the feature pipeline (validate_feature_snapshot) accepts whatever
\* either program joins, late and intraday prices included.
NoFutureFeatures ==
  \A features \in {PythonFeatures(statements, prices), SparkFeatures(statements, prices)} :
    \A q \in DOMAIN features : validate_feature_snapshot(features[q], Release[q])

\* No label and no feature knows anything of the time after its row was released, in
\* whatever order the rows arrive.
NoLookAhead == QuartersStandAlone /\ NoFutureFeatures

\* The dimension answers an as-of lookup at any snapshot with that snapshot's fields
\* (a missing flag read as FALSE), and has one current version (merge_dim_company, docs/02_schema_design.md:207).
AsOfHistory ==
  LET dim == merge_dim_company(companies)
  IN  /\ \A c \in companies :
           \E v \in dim :
             /\ v.attributes = c.attributes /\ v.delisted_flag = Flag(c.delisted_flag)
             /\ {o \in dim : /\ o.valid_from_ts <= c.created_ts
                             /\ o.valid_to_ts = Null \/ c.created_ts < o.valid_to_ts} = {v}
      /\ companies # {} => Cardinality({v \in dim : v.is_current}) = 1

\* docs/01_data_generator.md:258 excludes financial companies from labelling.  The code
\* does not keep this: the fact rows carry no sector.
FinancialsExcluded ==
  companies # {} /\ Newest(companies).attributes \in FinancialSectors =>
    \A f \in PythonFacts(statements) : compute_labels(PythonFacts(statements))[Period(f)] = Excluded
=============================================================================
