---------------------------- MODULE MCTcpClient ----------------------------
(* TLC instance of TcpClient: three fds, so that segments of the last and of *)
(* the last but one request are still about when a new one starts, and two   *)
(* of the three callbacks of S3/web.c: a reply that goes astray is one that  *)
(* one callback asked for and another gets.                                  *)
EXTENDS TcpClient

CONSTANTS upload, lcd

MCCallers == {upload, lcd}
MCStatuses == {200, 404}
=============================================================================
