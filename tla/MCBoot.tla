------------------------------- MODULE MCBoot -------------------------------
(* Firmware and hardware that take every branch of EfiMain and KernelMain:  *)
(* the complete machine with two NVMe functions, one behind an NVMe         *)
(* function 0 and one in the last place of the scan; and machines that each *)
(* lack something.  Three slots, of which one ring-0 task may be started.   *)
EXTENDS Boot

MCBootUsed == {0, 2, 4}

Nvme(b, d, f, multi) == [at |-> <<b, d, f>>, nvme |-> TRUE, multi |-> multi]
Other(b, d, f, multi) == [at |-> <<b, d, f>>, nvme |-> FALSE, multi |-> multi]

Complete ==
  [gop |-> "protocol", image |-> TRUE, map |-> TRUE, revision |-> 2, madt |-> TRUE,
   controllers |-> <<"LAPIC", "IOAPIC", "IOAPIC">>, heap |-> TRUE,
   pci |-> {Nvme(0, 1, 0, FALSE), Nvme(0, 1, 1, FALSE),
            Other(1, 1, 0, TRUE), Nvme(1, 1, 1, FALSE)}]

NoIoapic == [Complete EXCEPT !.controllers = <<"LAPIC", "ISO">>, !.pci = {}]

MCMachines ==
  {Complete, NoIoapic,
   [Complete EXCEPT !.gop = "handle", !.heap = FALSE, !.pci = {Other(0, 0, 0, FALSE)}],
   [Complete EXCEPT !.gop = "none"],
   [Complete EXCEPT !.image = FALSE],
   [Complete EXCEPT !.map = FALSE],
   [Complete EXCEPT !.revision = 1],
   [Complete EXCEPT !.madt = FALSE]}
=============================================================================
