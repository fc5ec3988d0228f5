---------------------------- MODULE MCBootloader ----------------------------
EXTENDS Bootloader

\* A document of two rows; the same and one with a checksum error.
TwoRows == {<<1, 2>>}
NoDocument == {}
WithCorrupt == {<<1, 2>>, <<3>>}
OnlyCorrupt == {<<3>>}
=============================================================================
