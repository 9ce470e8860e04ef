---------------------------- MODULE ZipOptional -----------------------------
(***************************************************************************)
(* packages/zip-optional: a sequence paired with an optional second one.   *)
(***************************************************************************)
EXTENDS Naturals, Sequences, Options

\* The item at i of an optional list.
At(list, i) == IF list = None THEN None ELSE list[i]

Shorter(m, n) == IF m < n THEN m ELSE n

\* zip_optional, all items of the iterator: it ends with the first of the two
\* sequences to end, and gives None in place of items that there are none of.
zip_optional(a, b) ==
    IF b = None THEN [i \in 1 .. Len(a) |-> <<a[i], None>>]
    ELSE [i \in 1 .. Shorter(Len(a), Len(b)) |-> <<a[i], b[i]>>]
=============================================================================
