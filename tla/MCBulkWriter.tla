----------------------------- MODULE MCBulkWriter -----------------------------
(* A small batch for TLC. *)
EXTENDS BulkWriter

Doc(sizes) == [convertible |-> TRUE, sizes |-> sizes]

\* A rich text with two images, a message that is no document, one that just
\* fits behind the first, a rich text with an image the index refuses, one too
\* large to be sent, and a last one.
SixMessages ==
    <<Doc(<<2, 1, 1>>), [convertible |-> FALSE, sizes |-> <<1>>], Doc(<<2>>),
      Doc(<<2, 1>>), Doc(<<4, 3>>), Doc(<<1>>)>>

RefusedImage == {<<4, 2>>}
=============================================================================
