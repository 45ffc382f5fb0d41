--------------------------- MODULE MCSupervision ---------------------------
EXTENDS Supervision

\* Everything; nothing optional; the feed alone; consumers of a disabled market.
All == {"market", "quant", "execution", "production", "ml", "research"}
MCWirings == {All, {}, {"market"}, {"quant", "execution", "production"}}
MCUpsets == [w \in MCWirings |-> CASE w = All -> 0 [] w = {} -> 2 [] OTHER -> 1]
=============================================================================
