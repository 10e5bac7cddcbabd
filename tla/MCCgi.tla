-------------------------------- MODULE MCCgi --------------------------------
EXTENDS Cgi

TwoNames == {<<97>>, <<98>>}
\* The empty value, and one that is made of characters that are escaped.
TwoValues == {<<>>, <<EQUAL, PERCENT>>}

Fields == {"path_info", "server_name"}

Plain ==
    [auth_type |-> "Basic", content_length |-> 80, content_type |-> <<97, SLASH, 98>>,
     gateway_interface |-> <<67, 71, 73, SLASH, 49, DOT, 50>>,
     path_info |-> "path", server_name |-> UNSET, query_string |-> "query",
     server_port |-> 101, server_protocol |-> <<72, SLASH, 49, DOT, 48>>]
Bare ==
    [auth_type |-> UNSET, content_length |-> UNSET, content_type |-> UNSET,
     gateway_interface |-> <<67>>,
     path_info |-> UNSET, server_name |-> "name", query_string |-> UNSET,
     server_port |-> UNSET, server_protocol |-> <<72>>]
\* A version with no major number.
Zero == [Plain EXCEPT !.gateway_interface = <<67, 71, 73, SLASH, 48, DOT, 57>>]

Uses(part, fds, environments) == [uses : {{part}}, fd : fds, env : environments]
Meta == Uses("meta", {"stdin", "stream"}, {Plain, Bare})
Cookies == Uses("cookies", {"stdin"}, {Bare})
Response == Uses("response", {"stream"}, {Bare})
Each == Meta \cup Cookies \cup Response
ZeroMajor == Uses("meta", {"stdin"}, {Zero})
=============================================================================
