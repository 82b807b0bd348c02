------------------------------- MODULE MCNfsScan -------------------------------
\* Blocks of two bytes, read two at a time and twice over: a model of whole blocks,
\* one whose second file begins inside a block, one with a file smaller than a block,
\* and one that cannot give three streams something to read.
EXTENDS NfsScan

MCModels == {<<6, 8>>, <<7, 9>>, <<1, 5, 4>>, <<4>>}
MCLimits == {0, 9}
==============================================================================
