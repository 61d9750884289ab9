----------------------------- MODULE MCMigration -----------------------------
EXTENDS Migration
==============================================================================
