------------------------------ MODULE MCPortC -------------------------------
EXTENDS PortC

ASSUME BufferWriteRight

\* Bound of the model: nothing is said of what follows the first moved select.
Unmoved == ~flipped
=============================================================================
