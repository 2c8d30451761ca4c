-------------------------- MODULE MCHttp1Transport --------------------------
(* HTTP/1.1 clients that send up to three requests, pipelined or not, and an *)
(* HTTP/2 client.                                                            *)
EXTENDS Http1Transport
MCScripts == {<<"P", "O", "P", "O", "G", "E">>, <<"G", "E", "P">>, <<"P", "R">>}
=============================================================================
