---------------------------- MODULE BarResample ----------------------------
(***************************************************************************)
(* Resampling of one-minute bars (features/bars.py).  A bar is              *)
(*   [t, open, hi, lo, close, volume]                                       *)
(* with t its minute of the hour; n divides the hour.                        *)
(***************************************************************************)
EXTENDS Integers, Sequences, SequencesExt, FiniteSetsExt

Merge(b) ==
    [t |-> Head(b).t, open |-> Head(b).open, close |-> Last(b).close,
     hi |-> Max({b[k].hi : k \in DOMAIN b}), lo |-> Min({b[k].lo : k \in DOMAIN b}),
     volume |-> FoldLeft(LAMBDA v, x : v + x.volume, 0, b)]

\* The bars of the bucket that ends before start + n, and the buckets before it.
AddToBucket(acc, b, n) ==
    IF b.t < acc.start + n
    THEN [acc EXCEPT !.bucket = Append(@, b)]
    ELSE [start  |-> acc.start + n * ((b.t - acc.start) \div n),
          bucket |-> <<b>>,
          out    |-> IF acc.bucket = <<>> THEN acc.out ELSE Append(acc.out, Merge(acc.bucket))]

Resample(bars, n, dropPartial) ==
    IF bars = <<>> THEN <<>>
    ELSE LET begin == [start |-> Head(bars).t - (Head(bars).t % n), bucket |-> <<>>, out |-> <<>>]
             end   == FoldLeft(LAMBDA acc, b : AddToBucket(acc, b, n), begin, bars)
         IN  IF dropPartial THEN end.out ELSE Append(end.out, Merge(end.bucket))
=============================================================================
