---------------------------- MODULE MCSupervisor ----------------------------
(* Supervisor on small instances: three process slots (one for each        *)
(* program and one to be wrong with), mappings that differ in the port, in *)
(* the address only, and in the local port, and a 3-bit time.Duration in   *)
(* which the second doubling of the retry delay would wrap around.         *)
EXTENDS Supervisor, TLC

MCMaxDuration == 3
MCDefaultRetryDelay == 1
MCRuntime == [RetryDelay |-> 2, RetryMaxDelay |-> 3, RestartDelay |-> 0]
MCBindPort == 80

MapA  == [PublicAddress |-> "a", PublicPort |-> 1, PrivatePort |-> 80]
MapB  == [PublicAddress |-> "a", PublicPort |-> 2, PrivatePort |-> 80]
MapA2 == [PublicAddress |-> "b", PublicPort |-> 1, PrivatePort |-> 80]
Wrong == [PublicAddress |-> "a", PublicPort |-> 1, PrivatePort |-> 81]

MCMappings == {MapA, MapB, Wrong}
MCTwoMappings == {MapA, MapB}
MCAddressChanges == {MapA, MapA2}

NoProgram == {}
HathOnly == {"hath"}
NatmapOnly == {"natmap"}

PidSymmetry == Permutations(Pid)

=============================================================================
