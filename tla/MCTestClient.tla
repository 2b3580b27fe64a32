---------------------------- MODULE MCTestClient ----------------------------
(***************************************************************************)
(* A small instance of TestClient for TLC: the two sockets it dials.       *)
(***************************************************************************)
EXTENDS TestClient

MCSockets == {"/tmp/controller.sock", "/tmp/echo.sock"}
=============================================================================
