---------------------------- MODULE MCCudaEngine ----------------------------
EXTENDS CudaEngine, TLC

CONSTANTS a1, a2, f1, f2, f3, b1, b2, b3

\* One frame is larger, and the probe tells them apart.
MCBytes == [x \in {f1, f2, f3, b1, b2, b3} |-> IF x \in {f2, b3} THEN 2 ELSE 1]
MCProbe == [f \in {f1, f2, f3} |-> f]

\* Two frames of one size, one of them with and without a transposed frame, and a larger
\* one at the other's address, from the host or from the decoder.
MCInputs == { <<a1, f1, b1>>, <<a1, f1, b2>>, <<a1, f3, b1>>, <<a2, f2, b3>>, <<Device, f2, b3>> }
=============================================================================
