--------------------------- MODULE MCExitBitmaps ----------------------------
(***************************************************************************)
(* The exit bitmaps with the MSRs and ports at the edges of every range,   *)
(* the neighbours of the intercepted ones, and those whose bit another     *)
(* range's bit could be mistaken for.                                      *)
(***************************************************************************)
EXTENDS ExitBitmaps

\* 0x102 and 0xC0000102 have the same index; EFER and FS_BASE are held in the VMCS.
MCExisting == {258, 8191, -1073741696, -1073741568, -1073741566, -1073733633}
\* And MSRs the CPU has not: 0xC0000103, 0x2000, 0x40000000, 0xBFFFFFFF, 0xC0002000.
MCMsrs == MCExisting \cup {-1073741565, 8192, 1073741824, -1073741825, -1073733632}

\* 0 and a value that is no canonical address.
MCValues == {<<0, 0>>, <<32768, 0>>}

MCPorts == {0, 1019, 1020, 1021, 1022, 1023, 1024, 32766, 32767, 32768, 33790, 33791,
            65532, 65533, 65535}
=============================================================================
