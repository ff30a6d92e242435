------------------------------ MODULE Lookups ------------------------------
(***************************************************************************)
(* The profile as the simulator reads it: the lookups of                   *)
(* serving/core/trace_generator.py.                                        *)
(*                                                                         *)
(* A profile db is a record: tps (the profiled degrees), catalog (category *)
(* -> its layers), stable (the tp-stable layers), tables (tp -> category   *)
(* -> table) and skew (the fit of meta.yaml).  A table gives the           *)
(* nanoseconds of the keys that were measured: a function of <<layer,      *)
(* size>> for dense and per_sequence, of <<prefill chunk, KV of prefills,  *)
(* decodes, KV of a decode>> for attention, of <<tokens, experts>> for moe.*)
(*                                                                         *)
(* The code's floats are exact fractions <<numerator, denominator>> here.  *)
(* Log is the logarithm of the interpolation, scaled to integers.          *)
(***************************************************************************)
EXTENDS Integers, Sequences, FiniteSetsExt

CONSTANTS Log(_), AlphaFallback

Atleast(n, m) == Max({n, m})

-----------------------------------------------------------------------------
(* Fractions: a number between two others, cut or rounded to an integer.   *)

CommonDenominator(a, b) == CASE a % b = 0 -> a
                             [] b % a = 0 -> b
                             [] OTHER -> a * b

(* a + t * (b - a) *)
Blend(a, b, t) ==
  LET d == CommonDenominator(a[2], b[2])
      x == a[1] * (d \div a[2])
      y == b[1] * (d \div b[2])
  IN <<x * t[2] + t[1] * (y - x), d * t[2]>>

Whole(n) == <<n, 1>>
Less(a, b) == a[1] * b[2] < b[1] * a[2]

(* int(x) and round(x) of a time, which is at least one nanosecond *)
Cut(x) == IF x[1] < x[2] THEN 1 ELSE x[1] \div x[2]
RoundHalfEven(n, d) ==
  LET q == n \div d
      r == 2 * (n % d)
  IN IF r > d \/ (r = d /\ q % 2 = 1) THEN q + 1 ELSE q

-----------------------------------------------------------------------------
(* Axes.  A bracket is <<low, high, t>>: the two measured keys around a    *)
(* query and its place between them.                                       *)

Below(keys, q) == {k \in keys : k <= q}
OneKey(keys, q) == Cardinality(keys) = 1 \/ Below(keys, q) = {}
Around(keys, q) == IF q >= Max(keys) THEN <<Max(keys \ {Max(keys)}), Max(keys)>>
                   ELSE <<Max(Below(keys, q)), Min(keys \ Below(keys, q))>>
AtFirst(keys) == <<Min(keys), Min(keys), <<0, 1>>>>
Linear(ends, q) == Append(ends, <<q - ends[1], ends[2] - ends[1]>>)
LogLinear(ends, q) == IF ends[1] = 0 THEN Linear(ends, q)
                      ELSE Append(ends, <<Log(q) - Log(ends[1]), Log(ends[2]) - Log(ends[1])>>)

(* _lookup_bounds, _linear_interpolate: the first key below all of them,   *)
(* the last two, and so an extrapolation, above.                           *)
LookupBounds(keys, q) == IF OneKey(keys, q) THEN AtFirst(keys) ELSE Linear(Around(keys, q), q)

(* _axis_bracket: the same with logarithms, except next to the key 0. *)
AxisBracket(keys, q) == IF OneKey(keys, q) \/ q = Min(keys) THEN AtFirst(keys)
                        ELSE LogLinear(Around(keys, q), q)

(* The value at a bracket, from those at its ends *)
Interpolate(at, b) == Blend(at[b[1]], at[b[2]], b[3])
Ends(b) == {b[1], b[2]}

-----------------------------------------------------------------------------
(* _effective_tp, _tp_tables: layers marked tp_stable are measured at one. *)
EffectiveTp(db, layer, tp) == IF layer \in db.stable /\ 1 \in db.tps THEN 1 ELSE tp

(* _layer_category *)
LayerCategory(db, layer) ==
  CASE layer \in db.catalog.per_sequence -> "per_sequence"
    [] layer \in db.catalog.attention -> "attention"
    [] layer \in db.catalog.moe -> "moe"
    [] OTHER -> "dense"

(* The sizes at which a layer was measured; _layer_available *)
Measured(table, layer) == {k[2] : k \in {p \in DOMAIN table : p[1] = layer}}
LayerAvailable(db, tp, layer) ==
  LayerCategory(db, layer) \in {"dense", "per_sequence"} =>
    Measured(db.tables[EffectiveTp(db, layer, tp)][LayerCategory(db, layer)], layer) # {}

(* _lookup_1d *)
Lookup1d(table, layer, b) ==
  Cut(Interpolate([k \in Ends(b) |-> Whole(table[<<layer, k>>])], b))

(* _lookup_dense, _lookup_per_sequence *)
LookupIn(table, layer, size) ==
  Lookup1d(table, layer, LookupBounds(Measured(table, layer), Atleast(size, 1)))
LookupLayer(db, category, layer, tp, size) ==
  LookupIn(db.tables[EffectiveTp(db, layer, tp)][category], layer, size)

(* _lookup_moe: measured on one rank; first over the tokens, then over the *)
(* experts.                                                                *)
MoeRow(table, e, b) == Interpolate([t \in Ends(b) |-> Whole(table[<<t, e>>])], b)
MoeAt(table, tokens, b) ==
  Interpolate([e \in Ends(b) |->
     MoeRow(table, e, LookupBounds({k[1] : k \in {p \in DOMAIN table : p[2] = e}}, tokens))], b)
LookupMoeIn(table, tokens, experts) ==
  Cut(MoeAt(table, tokens, LookupBounds({k[2] : k \in DOMAIN table}, experts)))
LookupMoe(db, tokens, experts) ==
  LookupMoeIn(db.tables[IF 1 \in db.tps THEN 1 ELSE Min(db.tps)].moe,
              Atleast(tokens, 1), Atleast(experts, 1))

-----------------------------------------------------------------------------
(* Attention: a grid of two axes for each measured pair of a chunk and a   *)
(* number of decodes.                                                      *)

(* _attn_slice_lookup; slice: <<KV of prefills, KV of a decode>> -> ns *)
SliceRow(slice, p, b) == Interpolate([d \in Ends(b) |-> Whole(slice[<<p, d>>])], b)
SliceAt(slice, kd, b) ==
  Interpolate([p \in Ends(b) |->
     SliceRow(slice, p, AxisBracket({k[2] : k \in {s \in DOMAIN slice : s[1] = p}}, kd))], b)
AttnSliceLookup(slice, kp, kd) ==
  SliceAt(slice, kd, AxisBracket({k[1] : k \in DOMAIN slice}, kp))
Slice(table, pair) ==
  [k \in {<<q[2], q[4]>> : q \in {p \in DOMAIN table : <<p[1], p[3]>> = pair}} |->
     table[<<pair[1], k[1], pair[2], k[2]>>]]

(* _corner: a pair nobody measured is replaced by the nearest that was,    *)
(* the smallest of those as near.                                          *)
Apart(p, q) == (p[1] - q[1]) * (p[1] - q[1]) + (p[2] - q[2]) * (p[2] - q[2])
Before(p, q) == p[1] < q[1] \/ (p[1] = q[1] /\ p[2] <= q[2])
Nearest(pairs, pair) ==
  CHOOSE p \in pairs : \A o \in pairs :
    Apart(p, pair) < Apart(o, pair) \/ (Apart(p, pair) = Apart(o, pair) /\ Before(p, o))
Corner(table, pair, kp, kd) ==
  AttnSliceLookup(Slice(table, Nearest({<<k[1], k[3]>> : k \in DOMAIN table}, pair)), kp, kd)

(* _lookup_attention *)
GridAt(table, kp, kd, p, n) ==
  Interpolate([chunk \in Ends(p) |->
     Interpolate([nd \in Ends(n) |-> Corner(table, <<chunk, nd>>, kp, kd)], n)], p)
LookupAttention(table, pc, kp, nd, kd) ==
  Cut(GridAt(table, kp, kd, AxisBracket({k[1] : k \in DOMAIN table}, pc),
                            AxisBracket({k[3] : k \in DOMAIN table}, nd)))

(* The correction for skew.  An axis is the set of the upper edges of its  *)
(* buckets; those of the skew rate are hundredths, as the alphas are.      *)
DefaultSkewAxes == [n |-> {2, 4, 8, 16, 32, 64, 128}, rate |-> {5, 15, 40, 70},
                    big |-> {1024, 4096, 16384}, kp |-> {0, 2048}]
ResolveSkewAxes(skew, tp) == CASE "axes" \in DOMAIN skew.per_tp[tp] -> skew.per_tp[tp].axes
                               [] "axes" \in DOMAIN skew -> skew.axes
                               [] OTHER -> DefaultSkewAxes

(* _bucket_label: closed above; what is above the last edge has a bucket *)
BucketLabel(edges, q) == IF Less(Whole(Max(edges)), q) THEN <<"above", Max(edges)>>
                         ELSE <<"upto", Min({e \in edges : ~Less(Whole(e), q)})>>
BucketKey(axes, pc, n, rate, big, kp) ==
  <<pc, BucketLabel(axes.n, Whole(n)), BucketLabel(axes.rate, <<100 * rate[1], rate[2]>>),
    BucketLabel(axes.big, Whole(big)), BucketLabel(axes.kp, Whole(kp))>>

(* _skew_alpha: the alpha of the bucket, of the degree, or a built-in one. *)
AlphaOf(entry, key) == IF key \in DOMAIN entry.alphas THEN entry.alphas[key] ELSE entry.default
SkewAlpha(skew, tp, pc, n, rate, big, kp) ==
  IF ~skew.enabled \/ tp \notin DOMAIN skew.per_tp THEN AlphaFallback
  ELSE AlphaOf(skew.per_tp[tp], BucketKey(ResolveSkewAxes(skew, tp), pc, n, rate, big, kp))

(* _lookup_attention_with_skew: a batch of decodes of unequal lengths is   *)
(* slower than its mean says, by a fitted part of what its maximum says.   *)
Corrected(mean, max, alpha) ==
  IF max <= mean THEN mean ELSE Atleast(1, RoundHalfEven(100 * mean + alpha * (max - mean), 100))
Even(b) == b.n_decode <= 1 \/ b.max = b.mean
LookupAttentionWithSkew(db, tp, b) ==
  Corrected(LookupAttention(db.tables[tp].attention, b.chunk, b.kv_prefill, b.n_decode, b.mean),
            LookupAttention(db.tables[tp].attention, b.chunk, b.kv_prefill, b.n_decode,
                            IF Even(b) THEN b.mean ELSE b.max),
            IF Even(b) THEN 0
            ELSE SkewAlpha(db.skew, tp, b.chunk, b.n_decode,
                           <<b.mean - b.min, b.max - b.min>>, b.max, b.kv_prefill))
=============================================================================
