------------------------------ MODULE MCDavTree ------------------------------
EXTENDS DavTree

At(at) == Path(at, FALSE)
Dir(at) == Path(at, TRUE)
Rq(m, from, to) == [method |-> m, from |-> from, to |-> to]

\* Collections are named with a slash, files without, and files are moved.
TV == <<"content", "tv">>
F == <<"content", "tv", "f">>
G == <<"content", "g">>
MCUpload ==
    {Rq("MKCOL", Dir(TV), Dir(TV)), Rq("DELETE", Dir(TV), Dir(TV)),
     Rq("MOVE", At(F), At(G)), Rq("COPY", At(G), At(F)),
     Rq("PUT", At(<<"nzbs", "n">>), At(<<"nzbs", "n">>)), Rq("DELETE", At(<<"nzbs", "n">>), At(<<"nzbs", "n">>))}

MCMountPath == [r \in {"n"} |-> F]

ASSUME RequestsMoveFiles == OnlyFilesMove
=============================================================================
