---- MODULE MCLinkScope ----
EXTENDS LinkScope, TLC
U(h, d, html, named) == [host |-> h, dir |-> d, html |-> html, named |-> named]
MCHosts == {"h1", "h2"}
\* Directories "/", "/a/", "/a/b/" and "/c/".
MCDirs == {<<>>, <<"a">>, <<"a", "b">>, <<"c">>}
MCWithin == {p \in MCDirs \X MCDirs : \E n \in 0 .. 2 :
               n <= Len(p[1]) /\ p[2] = SubSeq(p[1], 1, n)}
home == U("h1", <<"a">>, TRUE, TRUE)
deep == U("h1", <<"a", "b">>, TRUE, TRUE)
pic  == U("h1", <<"a", "b">>, FALSE, TRUE)
top  == U("h1", <<>>, TRUE, FALSE)
far  == U("h2", <<"c">>, TRUE, TRUE)
out  == U("h2", <<"c">>, TRUE, FALSE)
lost == U("h2", <<"a">>, TRUE, TRUE)
low  == U("h2", <<"a", "b">>, FALSE, TRUE)
MCUrls == {home, deep, pic, top, far, out, lost, low}
MCPrimaries == {home, far}
\* deep may turn out to be out, another page of the host of far, or a file.
MCMoves == [u \in MCUrls |-> CASE u = deep -> {out, pic} [] u = pic -> {low} [] u = low -> {top} [] OTHER -> {}]
MCLinks == [u \in MCUrls |->
  CASE u = home -> {deep, pic, low, lost}
    [] u = far -> {lost, low, out}
    [] u = deep -> {home, top, pic}
    [] OTHER -> {home, deep, lost, low}]
MCAreaOf == [t \in {"domain", "location"} |-> [h \in MCHosts |-> IF t = "domain" THEN h ELSE "com"]]
Plainly == [depth |-> 3, up |-> FALSE, down |-> TRUE, travel |-> "address",
            robots |-> 2, near |-> FALSE, ext |-> 0, files |-> TRUE,
            first |-> FALSE, wizard |-> 2, filters |-> <<>>]
Allow(set) == [allow |-> TRUE, covers |-> set]
Forbid(set) == [allow |-> FALSE, covers |-> set]
MCBans == {{}, {<<"c">>}, {<<"a", "b">>}}
MCOptions == {
  Plainly,
  [Plainly EXCEPT !.filters = <<Forbid({deep})>>],
  [Plainly EXCEPT !.robots = 1, !.filters = <<Allow({top, lost}), Forbid({pic})>>],
  [Plainly EXCEPT !.up = TRUE, !.down = FALSE, !.robots = 0],
  [Plainly EXCEPT !.up = TRUE, !.travel = "domain"],
  [Plainly EXCEPT !.travel = "everywhere", !.files = FALSE],
  [Plainly EXCEPT !.travel = "location", !.ext = 1],
  [Plainly EXCEPT !.near = TRUE],
  [Plainly EXCEPT !.wizard = 1, !.depth = 2],
  [Plainly EXCEPT !.wizard = 1, !.first = TRUE, !.depth = 2]}
====
