--------------------------- MODULE MCCpuThreading ---------------------------
(* CpuThreading for TLC: each .cfg chooses the driver.                     *)
EXTENDS CpuThreading

CONSTANTS w1, w2

MCWorkers == {w1, w2}
=============================================================================
