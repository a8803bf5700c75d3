---------------------------- MODULE MCEnrollment ----------------------------
EXTENDS Enrollment

CONSTANTS service, once

MCProcesses == {service, once}
=============================================================================
