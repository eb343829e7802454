------------------------- MODULE MCContentEvidence -------------------------
(* Every kind of evidence a File can have, in two environments that serve   *)
(* one file each, with deployments in between.                              *)
EXTENDS ContentEvidence, TLC

Url(path) == <<"puppet://", "/">> \o path
SourceA == Url(<<"m", "/", "a">>)
SourceB == Url(<<"m", "/", "b">>)

MCEnvironments == {"production", "feature"}
MCSources == {SourceA, SourceB}

Ok(bytes) == [status |-> 200, body |-> "", bytes |-> bytes]
NotFound(body) == [status |-> 404, body |-> body, bytes |-> <<>>]
MCFirstResponse == Ok(<<"x">>)
MCResponses == {Ok(<<"x">>), Ok(<<"y">>), NotFound("RESOURCE_NOT_FOUND"), NotFound("router")}

File(p) == [NoFile EXCEPT !.p = Hash(p)]
Source(ref) == [source |-> Text(ref)]
Checksum(algorithm, text) ==
  [checksum |-> Text(<<algorithm>>), checksum_value |-> Text(text)]
Static(type, algorithm, digest) ==
  [File(Source(SourceA)) EXCEPT !.static = <<[type |-> type, algorithm |-> algorithm, digest |-> digest]>>]

MCFiles ==
  { File("mode" :> Text(<<"0644">>)),
    File("content" :> Text(<<"x">>)),
    File(Source(SourceA)),
    File("source" :> List(<<Text(SourceA), Text(SourceB)>>)),
    File("source" :> List(<<Text(SourceA), Boolean(TRUE)>>)),
    File(Source(<<"/", "etc">>)),
    File(Source(Url(<<"..", "/", "a">>))),
    File(Source(<<"puppet://", "host", "/", "m">>)),
    File(Checksum("md5", HashOf("md5", <<"x">>))),
    File("checksum_value" :> Text(<<"{sha256}">> \o HashOf("sha256", <<"y">>))),
    File([Checksum("", HashOf("sha256", <<"y">>)) EXCEPT !.checksum = Undef]),
    File(Checksum("sha256", <<"{md5}">> \o HashOf("md5", <<"x">>))),
    Static("file", "sha256", HashOf("sha256", <<"x">>)),
    Static("directory", "ctime", <<"2026">>),
    File(Source(SourceA) @@ "ensure" :> Text(<<"absent">>)),
    File(Source(SourceA) @@ "recurse" :> Boolean(TRUE)) }
=============================================================================
