----------------------------- MODULE MCHostLink -----------------------------
(***************************************************************************)
(* Instances of HostLink for TLC.                                          *)
(***************************************************************************)
EXTENDS HostLink

\* INIT_READ, INIT_WRITE with file 1, FILE_SEEK in file 2, SET_CFG_BYTE, and
\* EXEC_PACKET to write cells
TransferCommands == {<<32, 0>>, <<33, 1>>, <<22, 2>>, <<241, 0>>, <<63, 0>>}

\* SET_PORT_DDR, WRITE_PORT
PortCommands == {<<161, 0>>, <<163, 0>>}

\* INIT_READ, FILE_OPEN_READ of file 3, SET_CFG_BYTE, GET_HEARTBEAT,
\* GET_IMG_STATUS, LOAD_PARAM, and no command
MixedCommands == {<<32, 0>>, <<17, 3>>, <<241, 0>>, <<254, 0>>, <<65, 0>>,
                  <<64, 0>>, <<72, 0>>}
=============================================================================
