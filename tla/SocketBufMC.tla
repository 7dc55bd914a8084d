----------------------------- MODULE SocketBufMC -----------------------------
(* What lies between a socket and an application, one of them in each      *)
(* behaviour: a buffer of two bytes that may grow to five, so that the     *)
(* last growth is no doubling, with enough bytes to fill it, empty it and  *)
(* fill it again; two packages of each filter, whose bodies look like the  *)
(* marks it searches; requests that setData can read and that end it at    *)
(* each of its returns; the connectors; a client of a worker with send     *)
(* buffers smaller and larger than a message; and the queue of two items   *)
(* between two threads that push and two that pop, one with a time limit.  *)
(* These share nothing, so the others stand still.                         *)
EXTENDS SocketBuf, PackageFilters, HttpExchange, Connector, WorkerClient, BlockQueue

MCBodies == {<<>>, <<3>>, <<2, 13, 10, 13, 10>>}
MCLeftovers == {<<>>, <<13, 10, 13, 10>>, <<10, 1002, 13, 10, 13, 10>>}

Get1 == [command |-> "GET", uri |-> "/a", version |-> "1.1", query |-> <<>>, heads |-> <<>>,
         body |-> <<>>, parts |-> <<>>]
Part(n, v, f, t) ==
    [formData |-> TRUE, name |-> n, headEnds |-> TRUE, value |-> v, fileName |-> f, type |-> t]
OfForm == <<"Content-Type", Multipart>>
MCRequests ==
    {[Get1 EXCEPT !.query = <<<<"x", 300>>, <<7>>, <<"y", EncodedAs + 70000>>, <<"x", 0>>>>,
                  !.heads = <<<<"Cookie", <<<<"x", 5>>, <<"s", 6>>>>>>, <<"Host", <<<<1>>>>>>>>],
     [Get1 EXCEPT !.command = "HEAD", !.query = <<<<"x", 1>>>>,
                  !.heads = <<<<"Cookie", <<<<"s", 9>>>>>>, <<"", <<<<1>>>>>>>>],
     [Get1 EXCEPT !.command = "PUT"],
     [Get1 EXCEPT !.uri = ""],
     [Get1 EXCEPT !.version = "", !.query = <<<<"y", 2>>>>],
     [Get1 EXCEPT !.command = "POST", !.query = <<<<"y", 2>>>>, !.body = <<<<"x", 8>>>>,
                  !.heads = <<<<"content-type", Multipart>>>>],
     [Get1 EXCEPT !.command = "POST", !.body = <<<<"head", 8>>>>, !.heads = <<OfForm, OfForm>>,
                  !.parts = <<Part("f", EncodedAs + 3, "a.txt", "text"), Part("x", 4, "", ""),
                              Part("g", 4, "b.txt", "")>>],
     [Get1 EXCEPT !.command = "POST", !.body = <<<<"f", 8>>>>, !.heads = <<OfForm>>,
                  !.parts = <<Part("x", 9, "", ""), [Part("f", 5, "a.txt", "text") EXCEPT !.headEnds = FALSE],
                              Part("y", 4, "", "")>>]}

VARIABLE part
allVars == <<part, vars, packageVars, httpVars, connVars, clientVars, blockVars>>

StreamInit ==
    /\ part \in {"buffer", "packages", "http", "connector", "client", "block"}
    /\ Init /\ HttpInit /\ BlockInit
    /\ PackagesInit /\ (part # "packages" => filter = "raw" /\ packages = <<<<3>>>>)
    /\ ConnInit /\ (part # "connector" => kind = "tcp")
    /\ ClientInit /\ (part # "client" => dwMaxSendBufLen = 1)

BufferActs == Next /\ UNCHANGED <<packageVars, httpVars, connVars, clientVars, blockVars>>
PackagesActs == PackagesNext /\ UNCHANGED <<vars, httpVars, connVars, clientVars, blockVars>>
HttpActs == HttpNext /\ UNCHANGED <<vars, packageVars, connVars, clientVars, blockVars>>
ConnActs == ConnNext /\ UNCHANGED <<vars, packageVars, httpVars, clientVars, blockVars>>
ClientActs == ClientNext /\ UNCHANGED <<vars, packageVars, httpVars, connVars, blockVars>>
BlockActs == BlockNext /\ UNCHANGED <<vars, packageVars, httpVars, connVars, clientVars>>

StreamNext ==
    /\ UNCHANGED part
    /\ \/ part = "buffer" /\ BufferActs
       \/ part = "packages" /\ PackagesActs
       \/ part = "http" /\ HttpActs
       \/ part = "connector" /\ ConnActs
       \/ part = "client" /\ ClientActs
       \/ part = "block" /\ BlockActs

StreamSpec == StreamInit /\ [][StreamNext]_allVars /\ WF_vars(AddData)
=============================================================================
