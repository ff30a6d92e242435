------------------------------ MODULE SkewFit ------------------------------
(***************************************************************************)
(* profiler/core/fit_alpha.py and the skew_fit block of writer.py: from    *)
(* the measured cases of skew.csv to the alphas that Lookups reads.        *)
(*                                                                         *)
(* Timing(tp, case) is what the engine takes for the three shots of a case:*)
(* a record of mean, max and skew.  Alphas are hundredths.                 *)
(***************************************************************************)
EXTENDS ProfileGrids, Lookups

CONSTANT Timing(_, _)

(* The rows with an alpha: the others are dropped *)
Gap(tp, c) == Timing(tp, c).max - Timing(tp, c).mean
Excess(tp, c) == Timing(tp, c).skew - Timing(tp, c).mean
Valid(tp, cases) == {c \in cases : Gap(tp, c) > 0}

(* _fit_constant_wls: the alpha with the least squared error *)
FitConstantWls(tp, cases) ==
  LET num == MapThenSumSet(LAMBDA c : Gap(tp, c) * Excess(tp, c), cases)
      den == MapThenSumSet(LAMBDA c : Gap(tp, c) * Gap(tp, c), cases)
  IN IF den > 0 THEN RoundHalfEven(100 * num, den) ELSE 0

(* _derive_bucket_axes: an edge for each measured value, for the largest   *)
(* KV one for each power of four and one for the largest of all.           *)
DeriveKpAxis(cases) == LET kp == {c.kp : c \in cases} \ {0}
                       IN {0} \cup IF kp = {} THEN DefaultSkewAxes.kp ELSE kp
DeriveKvBigAxis(cases) ==
  LET top == Max({KvBig(c) : c \in cases})
  IN {Grid.kv_big, Atleast(top, Grid.kv_big)}
     \cup {v \in {Grid.kv_big * 4^e : e \in Exponents} : v <= top}
DeriveBucketAxes(cases) ==
  [n |-> {c.n : c \in cases}, rate |-> DefaultSkewAxes.rate,
   big |-> DeriveKvBigAxis(cases), kp |-> DeriveKpAxis(cases)]

SkewRate(c) == <<KvMean(c) - c.kvs, Atleast(KvBig(c) - c.kvs, 1)>>
CaseKey(axes, c) == BucketKey(axes, c.pc, c.n, SkewRate(c), KvBig(c), c.kp)

(* fit_alpha *)
AlphaByBucket(tp, cases, axes) ==
  [key \in {CaseKey(axes, c) : c \in cases} |->
     FitConstantWls(tp, {c \in cases : CaseKey(axes, c) = key})]
FitWith(tp, cases, axes) ==
  [default |-> FitConstantWls(tp, cases), axes |-> axes, alphas |-> AlphaByBucket(tp, cases, axes)]
FitAlpha(tp, cases) == FitWith(tp, cases, DeriveBucketAxes(cases))

(* _skew_fit_block: axes on which all degrees agree are written once.  The *)
(* alphas are in files of their own.                                       *)
AxesTaken(fits) == TRUE
AxesAgree(fits) == \A s, t \in DOMAIN fits : fits[s].axes = fits[t].axes
Summary(fit, agree) == IF agree THEN [default |-> fit.default] ELSE [default |-> fit.default, axes |-> fit.axes]
Block(fits, agree) ==
  IF DOMAIN fits = {} THEN [enabled |-> FALSE]
  ELSE LET per == [tp \in DOMAIN fits |-> Summary(fits[tp], agree)]
       IN IF agree THEN [enabled |-> TRUE, per_tp |-> per, axes |-> (CHOOSE f \in {fits[t] : t \in DOMAIN fits} : TRUE).axes]
          ELSE [enabled |-> TRUE, per_tp |-> per]
SkewFitBlock(fits) == Block(fits, AxesAgree(fits))

(* _hydrate_skew_fit_tables: the simulator puts the two together; a degree *)
(* without a file keeps its default only.                                  *)
With(entry, table) == [x \in DOMAIN entry \cup {"alphas"} |-> IF x = "alphas" THEN table ELSE entry[x]]
HydrateSkewFitTables(block, tables) ==
  IF ~block.enabled THEN block
  ELSE [x \in DOMAIN block |-> IF x = "per_tp" THEN [tp \in DOMAIN block.per_tp |-> With(block.per_tp[tp], tables[tp])]
                               ELSE block[x]]
=============================================================================
