---------------------------- MODULE MCApplyCache ----------------------------
EXTENDS ApplyCache

Plain == [id |-> "plain", roles |-> {"app"}, extensions |-> {}]
Citext == [id |-> "citext", roles |-> {"app"}, extensions |-> {"citext"}]
AddColumn == [id |-> "column", uses |-> {}]
AddCitext == [id |-> "citext", uses |-> {"citext"}]
MCBaselines == {Plain, Citext}
MCMigrations == {AddColumn, AddCitext}
MCBuilds == {<<AddColumn, AddCitext>>}
=============================================================================
