-------------------------- MODULE MCContainerRoots --------------------------
(* The two roots of roles/container_storage/vars/main.yml. *)
EXTENDS ContainerRoots

MCRoots == {"docker", "containerd"}
MCDocker == "docker"
MCItems == 1 .. 2
MCFaulty == {"compose", "survives", "copy", "kill", "reboot"}
=============================================================================
