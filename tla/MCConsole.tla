----------------------------- MODULE MCConsole -----------------------------
(* Instances of Console and, behind it, GatherView for TLC.                 *)
EXTENDS Console

\* Lines of the lists: a machine under two spellings, another, a comment.
MCLine == {"web", "WEB", "db", "#"}
MCLower == [l \in MCLine |-> IF l = "WEB" THEN "web" ELSE l]
MCCovers == [g \in {"w*", "hosts"} |-> IF g = "w*" THEN {"web"} ELSE {}]
MCLists == {[path \in {"hosts", "ldap"} |-> IF path = "hosts" THEN <<"web", "WEB", "#", "db">> ELSE <<"db">>],
            [path \in {"hosts", "ldap"} |-> <<"db">>]}

-----------------------------------------------------------------------------
\* A form with a field of each kind that the code treats differently.
MCVerbs == <<"gather", "svc", "ldapset">>
HostVerbs == {"gather", "svc"}
AllVerbs == HostVerbs \cup {"ldapset"}
Field(key, kind, tasks) == [key |-> key, kind |-> kind, tasks |-> tasks, ssh |-> FALSE]
MCFields ==
    <<Field("tasktype", "select", AllVerbs),
      Field("inventory", "text", HostVerbs),
      Field("match", "text", HostVerbs),
      Field("gather_query", "select", {"gather"}),
      Field("gather_cmd", "text", {"gather"}),
      Field("gather_parse", "select", {"gather"}),
      Field("svc_name", "text", {"svc"}),
      Field("ld_base", "text", {"ldapset"}),
      Field("transport", "select", HostVerbs),
      [key |-> "ssh_user", kind |-> "text", tasks |-> HostVerbs, ssh |-> TRUE],
      Field("whatif", "toggle", AllVerbs),
      Field("shuffle", "toggle", AllVerbs),
      Field("wait", "text", AllVerbs),
      Field("launch", "button", AllVerbs)>>
MCDefaultForm ==
    [key \in {MCFields[i].key : i \in DOMAIN MCFields} |->
        CASE key = "tasktype" -> "svc"
          [] key = "gather_query" -> 1
          [] key = "gather_parse" -> "raw"
          [] key = "transport" -> "local"
          [] key = "whatif" -> TRUE
          [] key = "shuffle" -> FALSE
          [] OTHER -> ""]
MCOptionsOf ==
    [key \in {"tasktype", "gather_parse", "transport"} |->
        CASE key = "tasktype" -> MCVerbs
          [] key = "gather_parse" -> <<"raw", "csv">>
          [] key = "transport" -> <<"local", "ssh">>]
\* Any text field may get the path of the list besides, from the browser.
MCTexts ==
    [key \in {"s_hosts"} \cup {MCFields[i].key : i \in {n \in DOMAIN MCFields : MCFields[n].kind = "text"}} |->
        CASE key = "match" -> {"w*", "["}
          [] key = "gather_cmd" -> {"mine"}
          [] key = "s_hosts" -> {"hosts"}
          [] OTHER -> {}]
MCNeeds ==
    [v \in AllVerbs |-> CASE v = "gather" -> {"gather_cmd"}
                          [] v = "svc" -> {"svc_name"}
                          [] v = "ldapset" -> {"ld_base"}]
MCPatternsOf == [t \in {"", "w*", "[", "hosts"} |-> IF t = "" THEN {} ELSE {t}]
MCTopMatch == [t \in {"", "Spooler", "hosts"} |-> IF t = "" THEN "Spooler" ELSE ""]
MCSettingFields ==
    <<[key |-> "s_transport", kind |-> "select"], [key |-> "s_hosts", kind |-> "text"],
      [key |-> "s_save", kind |-> "button"]>>
MCDefaultQueries == <<[cmd |-> "df", parse |-> "csv"]>>
MCTaskQuery == {"", "s", "zz"}
MCTaskHits ==
    [q \in MCTaskQuery |-> CASE q = "" -> AllVerbs [] q = "s" -> {"svc", "ldapset"} [] OTHER -> {}]
MCSavedSettings ==
    {[transport |-> "ssh", hosts |-> "hosts", queries |-> MCDefaultQueries \o <<[cmd |-> "mem", parse |-> "raw"]>>]}

-----------------------------------------------------------------------------
\* Cells: targets, exit codes, sizes (one of them "nan") and the rest.
MCCell == {"", "-", "web", "db", "0", "-1", "20G", "5G", "nan", "text", "Linux"}
NotNumber == [ok |-> FALSE, nan |-> FALSE, n |-> 0]
Num(n) == [ok |-> TRUE, nan |-> FALSE, n |-> n]
MCNumber ==
    [x \in MCCell |-> CASE x = "0" -> Num(0) [] x = "-1" -> Num(-1)
                        [] x = "20G" -> Num(20) [] x = "5G" -> Num(5)
                        [] x = "nan" -> [Num(0) EXCEPT !.nan = TRUE]
                        [] OTHER -> NotNumber]
Alphabet == <<"", "-1", "0", "20G", "5G", "db", "Linux", "nan", "text", "web", "-">>
MCText == [x \in MCCell |-> CHOOSE i \in DOMAIN Alphabet : Alphabet[i] = x]
MCQuery == {"", "w"}
MCHolds == [q \in {"w"} |-> {"web"}]
MCNameCell == [t \in MCLine \ {"#"} |-> IF t = "WEB" THEN "web" ELSE t]
MCOsOf == [t \in MCLine \ {"#"} |-> IF t = "db" THEN "Linux" ELSE ""]

Output(t, exit, err, recs) ==
    [target |-> t, exit |-> exit, err |-> err, text |-> "text", cols |-> <<"Size">>, recs |-> recs]
MCOutputOf(t, dry) ==
    IF dry THEN {Output(t, "0", FALSE, <<>>)}
    ELSE IF t = "db" THEN {Output(t, "-1", TRUE, <<>>), Output(t, "0", FALSE, <<[Size |-> "nan"]>>)}
    ELSE {Output(t, "0", FALSE, <<[Size |-> "20G"], [Size |-> "5G"]>>)}
MCHeights == {7}
=============================================================================
