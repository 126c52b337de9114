----------------------------- MODULE MCDispatch -----------------------------
(***************************************************************************)
(* Routes over two literals, two parameter names and a wildcard, in every  *)
(* order of registration and in between requests.                          *)
(***************************************************************************)
EXTENDS Dispatch

def(method, segs, slash, form) == [method |-> method, segs |-> segs, slash |-> slash, form |-> form]
url(origin, segs, slash) == [origin |-> origin, segs |-> segs, slash |-> slash]

MCColon == {":i", ":k"}
MCNamedStars == {"*p"}

\* Static routes of one path, dynamic ones that overlap with them and each other.
MCDefinitions == {
    def("GET", <<"a">>, FALSE, "plain"),
    def("ALL", <<"a">>, FALSE, "constant"),
    def("GET", <<":i">>, FALSE, "plain"),
    def("ALL", <<":k", "b">>, TRUE, "plain"),
    def("GET", <<"a", ":k">>, FALSE, "constant"),
    def("PATCH", <<"a", "*">>, FALSE, "plain")}

\* The path of the last is at another offset: its host name is longer.
MCUrls == {url(8, <<"a">>, FALSE), url(8, <<"a">>, TRUE),
           url(8, <<"a", "b">>, FALSE), url(10, <<"a", "b">>, FALSE)}
=============================================================================
