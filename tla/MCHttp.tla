-------------------------------- MODULE MCHttp ------------------------------
(* A directory /r/ with a file f of three bytes, and requests for it, for  *)
(* the directory, for nothing that is there and for an attached URI.       *)
EXTENDS HttpGateway

Name(s) == <<Slash, s>>
UrisUsed  == {<<Slash>>, Name("a"), Name("f"), Name("a") \o Name("f"), <<Slash>> \o Name("a")}
PathsUsed == {Name("r") \o <<Slash>>}

(* fopen() opens a directory, and there is nothing to read.                *)
FilesUsed == (Name("r") \o <<Slash>> :> <<>>)
          @@ (Name("r") \o Name("f") :> <<"x", "y", "z">>)
=============================================================================
