--------------------------- MODULE MCConfigStore ---------------------------
(* One name per field is enough to tell a typed field from an empty one;   *)
(* the forms are the tabs of the web page, each with its own fields filled *)
(* in and the identity fields of the others empty.                         *)
EXTENDS ConfigStore

MCNames == {"n"}

Tab(ssid, host, tc2, opt, cloud, cons, spec) ==
  [k \in PostFields |-> CASE k = "ssid" -> ssid [] k = "host" -> host
     [] k = "tc2" -> tc2 [] k = "opt" -> opt [] k = "cloud" -> cloud
     [] k = "cons" -> cons [] k = "spec" -> spec]

MCForms == {
  Tab("n", "n", "", "1", "on", LeftOut, LeftOut),          \* network and broker
  Tab("n", "", "", LeftOut, "off", LeftOut, LeftOut),      \* network alone
  Tab("", "", "n", "0", "on", LeftOut, LeftOut),           \* account
  Tab("", "", LeftOut, "1", LeftOut, "1", "0"),            \* pellets
  Tab("", "", LeftOut, LeftOut, LeftOut, "0", "1")}        \* stove
==============================================================================
