--------------------------- MODULE MCVulkanEngine ---------------------------
EXTENDS VulkanEngine, TLC

CONSTANTS i1, b1, b2

\* A decoded image and a host frame, each with its own batch.
MCInputs == {<<i1, b1>>, <<Host, b2>>}
=============================================================================
