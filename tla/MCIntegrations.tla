--------------------------- MODULE MCIntegrations ---------------------------
EXTENDS Integrations

CONSTANTS c1, c2, c3

MCWord == {"a", "b", "txt", "pdf", "e-acute", "C)", "undefined"}

MCChunk == {"x", "y", "z", "old"}

(* The two bytes of an accented letter lose their eighth bit. *)
MCAscii == [w \in MCWord |-> IF w = "e-acute" THEN "C)" ELSE w]

J(op, item, value) == [op |-> op, item |-> item, value |-> value]

(* Names: a.b.txt and a-b.txt, which meet at one path; a name without an
   extension, and one that is not ASCII.                                   *)
Dotted == <<<<"a">>, <<"b">>, <<"txt">>>>
Hyphened == <<<<"a", "b">>, <<"txt">>>>
Bare == <<<<"a">>>>
Accented == <<<<"e-acute">>>>

At1 == <<<<"a", "b">>, <<"txt">>>>
At2 == <<<<"C)">>, <<"pdf">>>>
At3 == <<<<"a">>, <<"undefined">>>>

MCStored == At1 :> <<"old", "old">>

Upload(header, original, content) == J("uploadFile", <<header, original>>, content)
Download(path) == J("downloadFile", path, None)
Send(payload, schema) == J("sendMessage", payload, <<schema>>)

(* Messages with the same payload, and another; two uploads to one path or
   an empty one, and a download from it; every other operation, alone.     *)
Dispatches == {c1 :> Send("p", "s") @@ c2 :> Send("p", t) @@ c3 :> Send("q", "s") : t \in {"s", "t"}}

Transfers ==
    {c1 :> Upload(Dotted, Dotted, <<"x", "y">>) @@ c2 :> u @@ c3 :> Download(At1) :
        u \in {Upload(Hyphened, Hyphened, <<"z">>), Upload(Dotted, Dotted, None)}}
    \cup {c1 :> Upload(Accented, <<<<"b">>, <<"pdf">>>>, <<"x", "y">>) @@ c2 :> Download(At2),
          c1 :> Upload(Bare, Bare, <<"z">>) @@ c2 :> Download(At3)}

Calls == {c1 :> J(op, "resource", None) : op \in Op \ {"sendMessage", "uploadFile", "downloadFile"}}

MCJobs == Dispatches \cup Transfers \cup Calls
=============================================================================
