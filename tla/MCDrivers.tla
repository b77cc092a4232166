---------------------------- MODULE MCDrivers ----------------------------
EXTENDS Drivers, TLC

KeySymmetry == Permutations(Keys)
==========================================================================
